---- MODULE Spec2Model ----
(***************************************************************************)
(* State-machine model of the air-defence game's ballistic subsystem:      *)
(* AirDefence (registry, hittable set, decal buffer), Gun (burst fire) and *)
(* BallisticObject (per-tick integration and collision resolution).        *)
(*                                                                         *)
(* Numbers are fixed point:                                                *)
(*   time      1 unit = 1 ms                                               *)
(*   velocity  1 unit = 1e-5 m/s   (so 9.81 m/s^2 is 981 units per ms)     *)
(*   position  1 unit = 1e-5 m                                             *)
(*   chances and random draws are per mille (0..999 stands for [0,1))      *)
(* The world is the vertical plane through the gun: vectors are <<x, y>>.  *)
(* The scene is a scaled one: the airship is a few centimetres across and  *)
(* muzzle speeds are a few m/s (the gun's magnitude of 300 m/s is the      *)
(* length of the vectors in Shots, scaled with the scene), so that a tick  *)
(* of 8 or 16 ms moves a projectile by a distance comparable to the ship.  *)
(***************************************************************************)
EXTENDS Integers, Sequences, FiniteSets, TLC

(***************************************************************************)
(* Bounds of the model.                                                    *)
(***************************************************************************)
MaxProjectiles == 2
MaxInserted == 503
MaxVaried == 4

(***************************************************************************)
(* Program constants.                                                      *)
(***************************************************************************)
MaxDecals == 500
GravityY == -981
mass == 100
firePeriod == 10
fireLead == 50
SpeedOfSound == 343
DeflectBias == 300
DeflectKeep == 5
NudgeDiv == 100

gravity == <<0, GravityY>>

(***************************************************************************)
(* Inputs: tick lengths, random draws, and what the gun is aimed with.     *)
(***************************************************************************)
Deltas == {8, 16}
Draws == {0, 100, 650, 999}
Shots ==
    { [pos |-> <<0, 3000>>, vec |-> <<200000, 0>>],
      [pos |-> <<0, 1200>>, vec |-> <<200000, -20000>>],
      [pos |-> <<4800, 1050>>, vec |-> <<200000, -100000>>],
      [pos |-> <<-15000, 8000>>, vec |-> <<400000, 0>>] }

(***************************************************************************)
(* Integer helpers.  Quot truncates toward zero, as a float product cut to *)
(* the fixed-point grid would.                                             *)
(***************************************************************************)
Abs(a) == IF a < 0 THEN -a ELSE a
Sgn(a) == IF a < 0 THEN -1 ELSE IF a > 0 THEN 1 ELSE 0
Quot(a, b) == IF a >= 0 THEN a \div b ELSE -((-a) \div b)
Min2(a, b) == IF a <= b THEN a ELSE b
\* the element of a one-element set: Only({e(x) : x \in {c}}) is `const x = c'
\* followed by e(x), with c computed once
Only(S) == CHOOSE r \in S : TRUE
Max2(a, b) == IF a >= b THEN a ELSE b

RECURSIVE SqrtIter(_, _)
SqrtIter(n, x) ==
    Only({IF y >= x THEN x ELSE SqrtIter(n, y) : y \in {(x + n \div x) \div 2}})
ISqrt(n0) == Only({IF n <= 0 THEN 0 ELSE SqrtIter(n, n) : n \in {n0}})

(***************************************************************************)
(* Vector3 operations used by the code (three.js), on <<x, y>>.            *)
(***************************************************************************)
VAdd(a, b) == <<a[1] + b[1], a[2] + b[2]>>
VScale(a, k) == <<a[1] * k, a[2] * k>>
VQuot(a, k) == <<Quot(a[1], k), Quot(a[2], k)>>
Dot(a, b) == a[1] * b[1] + a[2] * b[2]
\* a vector in cm/s (or mm), coarse enough for its square to fit
Coarse(a) == VQuot(a, 1000)
\* the direction of a, with components of at most 1000 in size
Shrink(a) == VQuot(a, Max2(Abs(a[1]), Abs(a[2])) \div 1000 + 1)
\* Vector3.length of a velocity, in velocity units (cm/s resolution)
Length(a) == ISqrt(Dot(Coarse(a), Coarse(a))) * 1000
\* Vector3.addScaledVector(b, s) with s in ms and b per second or per ms
AddScaled(a, b, s) == VAdd(a, VScale(b, s))

(***************************************************************************)
(* The scene graph under the hittable Aircraft.  The airship asset is      *)
(* added to the Aircraft group when its load completes; its meshes are     *)
(* modelled as two axis-aligned faces in the plane: a vertical hull side   *)
(* and a horizontal deck.  normal is the face normal.                      *)
(***************************************************************************)
NoNode == "none"
ParentOf(node) ==
    CASE node = "hull" -> "ship"
      [] node = "deck" -> "ship"
      [] node = "ship" -> "aircraft"
      [] node = "aircraft" -> "scene"
      [] OTHER -> NoNode
Hittable(node) == node = "aircraft"
\* AirDefence._hittable after the constructor's addObject calls
hittables == <<"aircraft">>
\* the meshes below a hittable object, in traversal order
MeshesOf(obj, loaded) ==
    IF obj = "aircraft" /\ loaded THEN <<"hull", "deck">> ELSE <<>>
Meshes == {"hull", "deck"}
Face(mesh) ==
    IF mesh = "hull"
    THEN [axis |-> "x", at |-> 6000, lo |-> 1000, hi |-> 4000, normal |-> <<-1, 0>>]
    ELSE [axis |-> "y", at |-> 1000, lo |-> -1000, hi |-> 6000, normal |-> <<0, 1>>]

\* Box3 of a face
FaceBox(mesh) ==
    LET f == Face(mesh)
    IN  IF f.axis = "x"
        THEN [given |-> TRUE, min |-> <<f.at, f.lo>>, max |-> <<f.at, f.hi>>]
        ELSE [given |-> TRUE, min |-> <<f.lo, f.at>>, max |-> <<f.hi, f.at>>]

\* Box3: an empty box has min > max and contains no point
EmptyBox == [given |-> TRUE, min |-> <<1, 1>>, max |-> <<0, 0>>]
Union(a, b) ==
    IF a = EmptyBox THEN b
    ELSE [given |-> TRUE,
          min |-> <<Min2(a.min[1], b.min[1]), Min2(a.min[2], b.min[2])>>,
          max |-> <<Max2(a.max[1], b.max[1]), Max2(a.max[2], b.max[2])>>]
RECURSIVE ExpandByMeshes(_, _)
ExpandByMeshes(box, ms) ==
    IF ms = <<>> THEN box
    ELSE ExpandByMeshes(Union(box, FaceBox(Head(ms))), Tail(ms))
RECURSIVE ExpandByObjects(_, _, _)
ExpandByObjects(box, objs, loaded) ==
    IF objs = <<>> THEN box
    ELSE ExpandByObjects(ExpandByMeshes(box, MeshesOf(Head(objs), loaded)),
                         Tail(objs), loaded)
containsPoint(box, pt) ==
    /\ box.min[1] <= pt[1] /\ pt[1] <= box.max[1]
    /\ box.min[2] <= pt[2] /\ pt[2] <= box.max[2]

(***************************************************************************)
(* Raycaster.intersectObjects(objects, true, target) with firstHitOnly:    *)
(* the hits found are APPENDED to target, and target is then sorted by     *)
(* distance (a stable sort).  A hit is [distance, point, object, normal].  *)
(***************************************************************************)
\* distance between two points, in position units (mm resolution)
DistanceTo(a, b) ==
    LET c == VQuot(<<b[1] - a[1], b[2] - a[2]>>, 100)
    IN  ISqrt(Dot(c, c)) * 100

\* the point where the ray from o along d meets the face's line, if any
RayFace(o, d, far, mesh) ==
    LET f == Face(mesh)
        dc == Shrink(d)
        i == IF f.axis = "x" THEN 1 ELSE 2
        j == IF f.axis = "x" THEN 2 ELSE 1
        num == f.at - o[i]
        other == IF dc[i] = 0 THEN 0 ELSE o[j] + Quot(num * dc[j], dc[i])
        pt == IF f.axis = "x" THEN <<f.at, other>> ELSE <<other, f.at>>
        dist == DistanceTo(o, pt)
        ok == /\ dc[i] # 0
              /\ num * Sgn(dc[i]) >= 0
              /\ f.lo <= other /\ other <= f.hi
              /\ dist <= far
    IN  IF ok
        THEN <<[distance |-> dist, point |-> pt, object |-> mesh, normal |-> f.normal]>>
        ELSE <<>>

RECURSIVE RayMeshes(_, _, _, _)
RayMeshes(o, d, far, ms) ==
    IF ms = <<>> THEN <<>>
    ELSE RayFace(o, d, far, Head(ms)) \o RayMeshes(o, d, far, Tail(ms))
RECURSIVE RayObjects(_, _, _, _, _)
RayObjects(o, d, far, objs, loaded) ==
    IF objs = <<>> THEN <<>>
    ELSE RayMeshes(o, d, far, MeshesOf(Head(objs), loaded))
         \o RayObjects(o, d, far, Tail(objs), loaded)

\* stable insertion of h into a list sorted by distance
RECURSIVE InsertHit(_, _)
InsertHit(sorted0, h) ==
    Only({IF sorted = <<>> THEN <<h>>
          ELSE IF Head(sorted).distance <= h.distance
               THEN <<Head(sorted)>> \o InsertHit(Tail(sorted), h)
               ELSE <<h>> \o sorted
            : sorted \in {sorted0}})
RECURSIVE SortHits(_)
SortHits(hs0) ==
    Only({IF hs = <<>> THEN <<>>
          ELSE InsertHit(SortHits(SubSeq(hs, 1, Len(hs) - 1)), hs[Len(hs)])
            : hs \in {hs0}})

intersectObjects(rc, objs, loaded, target) ==
    Only({SortHits(target \o hits) :
            hits \in {RayObjects(rc.origin, rc.direction, rc.far, objs, loaded)}})

(***************************************************************************)
(* The state.                                                              *)
(*   proj        the BallisticObjects created so far, by id 1..Len(proj)   *)
(*   objects     AirDefence.objects in insertion order (0 is the gun)      *)
(*   decals      AirDefence.decals: decal ids, oldest first                *)
(*   decalInfo   per decal ever created: the mesh it is attached to (or    *)
(*               NoNode once detached) and its renderOrder                 *)
(*   hitLog      the hit callbacks invoked so far, as <<host, projectile>> *)
(*   raycaster   the module-level Raycaster shared by all projectiles      *)
(*   fireCooldown, isFiring   the Gun's fields                             *)
(*   shipLoaded  whether the airship asset has been added to the Aircraft  *)
(*   tick        the forEach of AirDefence.update in progress: its delta,  *)
(*               its Box3 and the registry entries still to be visited     *)
(*   last        what the most recent BallisticObject.update call did      *)
(*   heightfield the terrain call in progress or finished: its name, the   *)
(*               buffer and options it was given and what it made of them  *)
(***************************************************************************)
VARIABLES proj, objects, decals, decalInfo, hitLog, raycaster,
          fireCooldown, isFiring, shipLoaded, tick, last, heightfield

vars == <<proj, objects, decals, decalInfo, hitLog, raycaster,
          fireCooldown, isFiring, shipLoaded, tick, last, heightfield>>

GunId == 0
\* update called without a box: box?.containsPoint(...) is undefined
NoBox == [given |-> FALSE, min |-> <<1, 1>>, max |-> <<0, 0>>]

\* the part of the state the handlers read and write, as one value
World ==
    [proj |-> proj, objects |-> objects, decals |-> decals,
     decalInfo |-> decalInfo, hitLog |-> hitLog, raycaster |-> raycaster,
     fireCooldown |-> fireCooldown, shipLoaded |-> shipLoaded, last |-> last]
Becomes(w) ==
    /\ proj' = w.proj
    /\ objects' = w.objects
    /\ decals' = w.decals
    /\ decalInfo' = w.decalInfo
    /\ hitLog' = w.hitLog
    /\ raycaster' = w.raycaster
    /\ fireCooldown' = w.fireCooldown
    /\ shipLoaded' = w.shipLoaded
    /\ last' = w.last

(***************************************************************************)
(* AirDefence: registry and decal buffer.                                  *)
(***************************************************************************)
RECURSIVE Without(_, _)
Without(seq, x) ==
    IF seq = <<>> THEN <<>>
    ELSE IF Head(seq) = x THEN Without(Tail(seq), x)
         ELSE <<Head(seq)>> \o Without(Tail(seq), x)
Registered(w, id) == \E k \in 1..Len(w.objects) : w.objects[k] = id

\* Set.add: an object already present keeps its place
addToSet(seq, x) ==
    IF \E k \in 1..Len(seq) : seq[k] = x THEN seq ELSE Append(seq, x)

\* removeObject: projectiles and the gun are not hittable, so the hittable
\* set is left alone
removeObject(w, obj) == [w EXCEPT !.objects = Without(w.objects, obj)]

\* the while loop popping the newest decal instead of shifting the oldest
RECURSIVE Evict_Newest(_)
Evict_Newest(w0) ==
    Only({
        IF Len(w.decals) > MaxDecals
        THEN LET d == w.decals[Len(w.decals)]
             IN  Evict_Newest([w EXCEPT !.decals = SubSeq(w.decals, 1, Len(w.decals) - 1),
                                        !.decalInfo[d].parent = NoNode])
        ELSE w
        : w \in {w0}})

\* the while loop of addDecal: shift the oldest decal and detach it
RECURSIVE Evict(_)
Evict(w0) ==
    Only({
        IF Len(w.decals) > MaxDecals
        THEN LET d == Head(w.decals)
             IN  Evict([w EXCEPT !.decals = Tail(w.decals),
                                 !.decalInfo[d].parent = NoNode])
        ELSE w
        : w \in {w0}})

\* addDecal without the while loop
addDecal_NoEviction(w0, d) ==
    Only({
        [w EXCEPT !.decalInfo[d].renderOrder = Len(w.decals),
                  !.decals = Append(w.decals, d)]
        : w \in {w0}})

addDecal(w0, d) ==
    Only({
        Evict([w EXCEPT !.decalInfo[d].renderOrder = Len(w.decals),
                        !.decals = Append(w.decals, d)])
        : w \in {w0}})

\* new Mesh(new DecalGeometry(mesh, ...)); mesh.attach(m)
NewDecal(w, mesh) ==
    [w EXCEPT !.decalInfo = Append(w.decalInfo, [parent |-> mesh, renderOrder |-> 0])]

(***************************************************************************)
(* BallisticObject.                                                        *)
(***************************************************************************)
\* drag_cd(M) in 1e-4, M in per mille: the closed form tabulated every 0.1 Mach
\* and interpolated linearly (held at its last value above Mach 1.5)
CdTable ==
    <<1121, 818, 624, 508, 451, 460, 610, 1147, 2341, 3817,
      4950, 5740, 6321, 6583, 6414, 6003>>
drag_cd(M) ==
    LET k == M \div 100
        r == M % 100
    IN  IF k >= 15 THEN CdTable[16]
        ELSE CdTable[k + 1] + Quot((CdTable[k + 2] - CdTable[k + 1]) * r, 100)

\* 0.5 * 1.225 * 0.01 * drag_cd(vel / 343) * vel * vel / mass, in velocity
\* units per ms; vel in velocity units, mass in grams
dragForceOf(vel) ==
    LET velc == vel \div 1000
        M == (velc * 10) \div SpeedOfSound
        a == (velc * velc) \div 100
        b == (a * drag_cd(M)) \div 1000
    IN  (b * 6125) \div (10 * mass * 1000)

\* v.clone().normalize().multiplyScalar(s): a zero vector stays zero
NormalizedTimes(v, s) ==
    LET c == Shrink(v)
        len == ISqrt(Dot(c, c))
    IN  IF len = 0 THEN <<0, 0>>
        ELSE <<Quot(s * c[1], len), Quot(s * c[2], len)>>

\* Math.pow(Math.sin(n.angleTo(v)), 4) per mille; angleTo is PI/2 when
\* either vector has no length
deflectChanceOf(n, v) ==
    LET c == Shrink(v)
        vv == Dot(c, c)
        nn == Dot(n, n)
        d == Dot(c, n)
        sin2 == IF vv * nn = 0 THEN 1000 ELSE 1000 - (d * d * 1000) \div (vv * nn)
    IN  (sin2 * sin2) \div 1000

\* Vector3.reflect(n) for a unit normal
Reflect(v, n) == VAdd(v, VScale(n, -2 * Dot(v, n)))

\* the loop of line 205 without the hittable test: it walks up to the root
RECURSIVE HostOf_Root(_)
HostOf_Root(node) ==
    IF ParentOf(node) # NoNode THEN HostOf_Root(ParentOf(node))
    ELSE node
\* while (_host.parent && !_host.hittable) _host = _host.parent
RECURSIVE HostOf(_)
HostOf(node) ==
    IF ParentOf(node) # NoNode /\ ~Hittable(node) THEN HostOf(ParentOf(node))
    ELSE node

\* checkIntersection() without the removeObject call of line 224
checkIntersection_StaysRegistered(w0, id, draw) ==
    Only({
        LET me == w.proj[id]
            seen == [w EXCEPT !.proj[id].intersects = all,
                              !.last.cast = TRUE,
                              !.last.found = found]
        IN  IF Len(all) > 0
            THEN LET p == all[1].point
                     mesh == all[1].object
                     n == all[1].normal
                     host == HostOf(mesh)
                     deflectChance == deflectChanceOf(n, me.v)
                 IN  IF draw < deflectChance - DeflectBias
                     THEN LET v1 == VQuot(Reflect(me.v, n), DeflectKeep)
                              p1 == VAdd(p, VQuot(v1, NudgeDiv))
                          IN  [w |-> [seen EXCEPT !.proj[id].v = v1,
                                                  !.proj[id].intersects[1].point = p1,
                                                  !.proj[id].position = p1,
                                                  !.last.resolved = "deflect",
                                                  !.last.object = mesh,
                                                  !.last.v = v1,
                                                  !.last.position = p1],
                               ret |-> FALSE]
                     ELSE LET called == IF Hittable(host)
                                        THEN [seen EXCEPT !.hitLog = Append(@, <<host, id>>),
                                                          !.last.host = host]
                                        ELSE seen
                              made == NewDecal(called, mesh)
                              d == Len(made.decalInfo)
                              gone == addDecal(made, d)
                          IN  [w |-> [gone EXCEPT !.last.resolved = "impact",
                                                  !.last.object = mesh,
                                                  !.last.decal = d],
                               ret |-> TRUE]
            ELSE [w |-> seen, ret |-> FALSE]
        : w \in {w0},
          found \in {intersectObjects(w0.raycaster, hittables, w0.shipLoaded, <<>>)},
          all \in {intersectObjects(w0.raycaster, hittables, w0.shipLoaded,
                                   w0.proj[id].intersects)}})

\* checkIntersection(): the world after it, and what it returned
checkIntersection(w0, id, draw) ==
    Only({
        LET me == w.proj[id]
            seen == [w EXCEPT !.proj[id].intersects = all,
                              !.last.cast = TRUE,
                              !.last.found = found]
        IN  IF Len(all) > 0
            THEN LET p == all[1].point
                     mesh == all[1].object
                     n == all[1].normal
                     host == HostOf(mesh)
                     deflectChance == deflectChanceOf(n, me.v)
                 IN  IF draw < deflectChance - DeflectBias
                     THEN LET v1 == VQuot(Reflect(me.v, n), DeflectKeep)
                              p1 == VAdd(p, VQuot(v1, NudgeDiv))
                          IN  [w |-> [seen EXCEPT !.proj[id].v = v1,
                                                  !.proj[id].intersects[1].point = p1,
                                                  !.proj[id].position = p1,
                                                  !.last.resolved = "deflect",
                                                  !.last.object = mesh,
                                                  !.last.v = v1,
                                                  !.last.position = p1],
                               ret |-> FALSE]
                     ELSE LET called == IF Hittable(host)
                                        THEN [seen EXCEPT !.hitLog = Append(@, <<host, id>>),
                                                          !.last.host = host]
                                        ELSE seen
                              made == NewDecal(called, mesh)
                              d == Len(made.decalInfo)
                              gone == removeObject(addDecal(made, d), id)
                          IN  [w |-> [gone EXCEPT !.last.resolved = "impact",
                                                  !.last.object = mesh,
                                                  !.last.decal = d],
                               ret |-> TRUE]
            ELSE [w |-> seen, ret |-> FALSE]
        : w \in {w0},
          found \in {intersectObjects(w0.raycaster, hittables, w0.shipLoaded, <<>>)},
          all \in {intersectObjects(w0.raycaster, hittables, w0.shipLoaded,
                                   w0.proj[id].intersects)}})

\* what the update call starts its record of itself with; v and position
\* are the projectile's right after a deflection (line 211)
LastOf(id, delta) ==
    [who |-> id, delta |-> delta, dt |-> 0, active |-> FALSE, cast |-> FALSE,
     found |-> <<>>, resolved |-> "none", object |-> NoNode, host |-> NoNode,
     decal |-> 0, integrated |-> FALSE, ground |-> FALSE,
     v |-> <<0, 0>>, position |-> <<0, 0>>]

\* lines 177-185 without the ground test of lines 187-190
integrate_NoGround(w0, id, delta, vel0) ==
    Only({
        LET me == w.proj[id]
            v1 == AddScaled(me.v, gravity, delta)
            accel == VAdd(NormalizedTimes(v1, -dragForceOf(vel)), gravity)
            v2 == AddScaled(v1, accel, delta)
            newp == VAdd(me.position, VQuot(VScale(v2, delta), 1000))
        IN  [w EXCEPT !.proj[id].v = v2,
                      !.proj[id].position = newp,
                      !.last.integrated = TRUE]
        : w \in {w0}, vel \in {vel0}})

\* lines 177-190: gravity, drag, position, ground
integrate(w0, id, delta, vel0) ==
    Only({
        LET me == w.proj[id]
            v1 == AddScaled(me.v, gravity, delta)
            dragForce == dragForceOf(vel)
            accel == VAdd(NormalizedTimes(v1, -dragForce), gravity)
            v2 == AddScaled(v1, accel, delta)
            newp == VAdd(me.position, VQuot(VScale(v2, delta), 1000))
            moved == [w EXCEPT !.proj[id].v = v2,
                               !.proj[id].position = newp,
                               !.last.integrated = TRUE]
        IN  IF ~me.visible THEN moved
            ELSE IF newp[2] < 0
                 THEN [removeObject(moved, id) EXCEPT !.last.ground = TRUE]
                 ELSE moved
        : w \in {w0}, vel \in {vel0}})

\* update() with lines 172-173 after line 174: the ray is cast as the
\* previous caster left it, and set afterwards
update_CastBeforeSet(w0, id, delta0, box, draw) ==
    Only({
        LET et1 == w.proj[id].et + delta0
            w1 == [w EXCEPT !.proj[id].et = et1,
                            !.proj[id].visible = (et1 >= 0),
                            !.last = LastOf(id, delta0)]
        IN  IF et1 < 0 THEN w1
            ELSE LET delta == IF et1 < delta0 THEN delta0 - et1 ELSE delta0
                     me == w1.proj[id]
                     vel == Length(me.v)
                     w2 == [w1 EXCEPT !.last.active = TRUE, !.last.dt = delta]
                     ray == [far |-> Quot(vel * delta, 1000),
                             origin |-> me.position,
                             direction |-> me.v]
                 IN  IF box.given /\ containsPoint(box, me.position)
                     THEN Only({IF r.ret THEN [r.w EXCEPT !.raycaster = ray]
                                ELSE integrate([r.w EXCEPT !.raycaster = ray], id, delta, vel)
                                  : r \in {checkIntersection(w2, id, draw)}})
                     ELSE integrate(w2, id, delta, vel)
        : w \in {w0}})

\* update() without line 166: the elapsed time never advances
update_ClockStopped(w0, id, delta0, box, draw) ==
    Only({
        LET et1 == w.proj[id].et
            w1 == [w EXCEPT !.proj[id].visible = (et1 >= 0),
                            !.last = LastOf(id, delta0)]
        IN  IF et1 < 0 THEN w1
            ELSE LET me == w1.proj[id]
                     vel == Length(me.v)
                     w2 == [w1 EXCEPT !.last.active = TRUE, !.last.dt = delta0]
                 IN  IF box.given /\ containsPoint(box, me.position)
                     THEN LET w3 == [w2 EXCEPT !.raycaster =
                                         [far |-> Quot(vel * delta0, 1000),
                                          origin |-> me.position,
                                          direction |-> me.v]]
                          IN  Only({IF r.ret THEN r.w
                                    ELSE integrate(r.w, id, delta0, vel)
                                      : r \in {checkIntersection(w3, id, draw)}})
                     ELSE integrate(w2, id, delta0, vel)
        : w \in {w0}})

\* update() without the early return of line 168
update_NoWait(w0, id, delta0, box, draw) ==
    Only({
        LET et1 == w.proj[id].et + delta0
            w1 == [w EXCEPT !.proj[id].et = et1,
                            !.proj[id].visible = (et1 >= 0),
                            !.last = LastOf(id, delta0)]
            w2 == [w1 EXCEPT !.last.active = (et1 >= 0), !.last.dt = delta0]
        IN  integrate(w2, id, delta0, Length(w1.proj[id].v))
        : w \in {w0}})

\* update() without the box test of line 171: the ray is cast in every
\* Flying update
update_AlwaysCast(w0, id, delta0, box, draw) ==
    Only({
        LET et1 == w.proj[id].et + delta0
            w1 == [w EXCEPT !.proj[id].et = et1,
                            !.proj[id].visible = (et1 >= 0),
                            !.last = LastOf(id, delta0)]
        IN  IF et1 < 0 THEN w1
            ELSE LET delta == IF et1 < delta0 THEN delta0 - et1 ELSE delta0
                     me == w1.proj[id]
                     vel == Length(me.v)
                     w2 == [w1 EXCEPT !.last.active = TRUE, !.last.dt = delta]
                     w3 == [w2 EXCEPT !.raycaster =
                                         [far |-> Quot(vel * delta, 1000),
                                          origin |-> me.position,
                                          direction |-> me.v]]
                 IN  Only({IF r.ret THEN r.w
                           ELSE integrate(r.w, id, delta, vel)
                             : r \in {checkIntersection(w3, id, draw)}})
        : w \in {w0}})

\* update(delta, box); draw is what Math.random() returns if it is asked
update(w0, id, delta0, box, draw) ==
    Only({
        LET et1 == w.proj[id].et + delta0
            w1 == [w EXCEPT !.proj[id].et = et1,
                            !.proj[id].visible = (et1 >= 0),
                            !.last = LastOf(id, delta0)]
        IN  IF et1 < 0 THEN w1
            ELSE LET delta == IF et1 < delta0 THEN delta0 - et1 ELSE delta0
                     me == w1.proj[id]
                     vel == Length(me.v)
                     w2 == [w1 EXCEPT !.last.active = TRUE, !.last.dt = delta]
                 IN  IF box.given /\ containsPoint(box, me.position)
                     THEN LET w3 == [w2 EXCEPT !.raycaster =
                                         [far |-> Quot(vel * delta, 1000),
                                          origin |-> me.position,
                                          direction |-> me.v]]
                          IN  Only({IF r.ret THEN r.w
                                    ELSE integrate(r.w, id, delta, vel)
                                      : r \in {checkIntersection(w3, id, draw)}})
                     ELSE integrate(w2, id, delta, vel)
        : w \in {w0}})

(***************************************************************************)
(* Gun.                                                                    *)
(***************************************************************************)
\* new BallisticObject(props, game) with et set by the gun
NewProjectile(shot, et) ==
    [options |-> [startPos |-> shot.pos, startVec |-> shot.vec,
                  gravity |-> FALSE, drag |-> FALSE],
     v |-> shot.vec, position |-> shot.pos, et |-> et, visible |-> TRUE,
     intersects |-> <<>>]

\* fireProjectile(): the projectile is updated once, without a box, before
\* it is added to the registry
fireProjectile(w0, shot, draw) ==
    Only({
        LET id == Len(w.proj) + 1
            born == [w EXCEPT !.proj = Append(w.proj,
                                    NewProjectile(shot, -w.fireCooldown - fireLead))]
            first == update(born, id, fireLead, NoBox, draw)
        IN  [first EXCEPT !.fireCooldown = @ + firePeriod,
                          !.objects = addToSet(@, id)]
        : w \in {w0}})

\* how often the while loop of Gun.update runs from a cooldown of c
RECURSIVE Rounds(_)
Rounds(c) == IF c <= firePeriod THEN 1 + Rounds(c + firePeriod) ELSE 0

RECURSIVE fireLoop(_, _, _, _)
fireLoop(w0, firing, shots, draw) ==
    Only({
        IF firing /\ w.fireCooldown <= firePeriod
        THEN fireLoop(fireProjectile(w, Head(shots), draw), firing, Tail(shots), draw)
        ELSE w
        : w \in {w0}})

\* Gun.update(delta)
gunUpdate(w0, delta, firing, shots, draw) ==
    Only({
        LET c == w.fireCooldown - delta
            cooled == [w EXCEPT !.fireCooldown = IF c < 0 THEN 0 ELSE c]
        IN  fireLoop(cooled, firing, shots, draw)
        : w \in {w0}})

(***************************************************************************)
(* Actions.                                                                *)
(***************************************************************************)
Idle == [active |-> FALSE, delta |-> 0, box |-> NoBox, queue |-> <<>>]
\* no terrain call is being followed
NoCall == [call |-> "none"]

\* the game as its constructor leaves it
NewGame ==
    /\ proj = <<>>
    /\ objects = <<GunId>>
    /\ decals = <<>>
    /\ decalInfo = <<>>
    /\ hitLog = <<>>
    /\ raycaster = [far |-> 0, origin |-> <<0, 0>>, direction |-> <<0, 0>>]
    /\ fireCooldown = 0
    /\ isFiring = FALSE
    /\ shipLoaded = FALSE
    /\ tick = Idle
    /\ last = LastOf(0, 0)

Init == NewGame /\ heightfield = NoCall

\* the airship asset arrives: loadAsset(...).then(gltf => this.add(ship))
LoadShip ==
    /\ ~tick.active
    /\ ~shipLoaded
    /\ shipLoaded' = TRUE
    /\ UNCHANGED <<proj, objects, decals, decalInfo, hitLog, raycaster,
                   fireCooldown, isFiring, tick, last, heightfield>>

\* the GUI's 'Firing' checkbox
SetFiring ==
    /\ ~tick.active
    /\ isFiring' = ~isFiring
    /\ UNCHANGED <<proj, objects, decals, decalInfo, hitLog, raycaster,
                   fireCooldown, shipLoaded, tick, last, heightfield>>

\* AirDefence.update(delta) up to its forEach: the box of the hittable set
\* is computed once, then every registered object is visited in order
BeginTick ==
    /\ ~tick.active
    /\ isFiring => Len(proj) + Rounds(0) <= MaxProjectiles
    /\ \E delta \in Deltas :
         tick' = [active |-> TRUE, delta |-> delta,
                  box |-> ExpandByObjects(EmptyBox, hittables, shipLoaded),
                  queue |-> objects]
    /\ UNCHANGED <<proj, objects, decals, decalInfo, hitLog, raycaster,
                   fireCooldown, isFiring, shipLoaded, last, heightfield>>

\* the objects added to the registry by a step are visited by the same forEach
Visited(w) ==
    LET added == SelectSeq(w.objects, LAMBDA o : ~Registered(World, o))
        rest == Tail(tick.queue) \o added
    IN  IF rest = <<>> THEN Idle ELSE [tick EXCEPT !.queue = rest]

\* the forEach visits the gun
GunStep ==
    /\ tick.active
    /\ Head(tick.queue) = GunId
    /\ \E shots \in [1..Rounds(0) -> Shots] :
         \E w \in {gunUpdate(World, tick.delta, isFiring, shots, 0)} :
             Becomes(w) /\ tick' = Visited(w)
    /\ UNCHANGED <<isFiring, heightfield>>

\* the forEach visits a projectile
ProjectileStep ==
    /\ tick.active
    /\ Head(tick.queue) # GunId
    /\ \E draw \in Draws :
         \E w \in {update(World, Head(tick.queue), tick.delta, tick.box, draw)} :
             Becomes(w) /\ tick' = Visited(w)
    /\ UNCHANGED <<isFiring, heightfield>>

Next == LoadShip \/ SetFiring \/ BeginTick \/ GunStep \/ ProjectileStep

Spec == Init /\ [][Next]_vars

(***************************************************************************)
(* The decal buffer on its own: addDecal called with one new decal after   *)
(* another, each attached to a mesh.                                       *)
(***************************************************************************)
AddDecalCall ==
    /\ Len(decalInfo) < MaxInserted
    /\ \E mesh \in Meshes :
         /\ Len(decalInfo) >= MaxVaried => mesh = "hull"
         /\ \E made \in {NewDecal(World, mesh)} :
              \E w \in {addDecal(made, Len(made.decalInfo))} : Becomes(w)
    /\ UNCHANGED <<isFiring, tick, heightfield>>

SpecDecal == Init /\ [][AddDecalCall]_vars

(***************************************************************************)
(* Claims about the decal buffer, checked under SpecDecal.                 *)
(***************************************************************************)
\* C1: at the end of every addDecal call, whatever came before it, the decal
\* buffer holds at most 500 decals.
C1_DecalBound == Len(decals) <= MaxDecals

\* the 501st decal has been inserted and the buffer is full
C1_Witness == Len(decalInfo) = MaxDecals + 1 /\ Len(decals) = MaxDecals

\* C2: once more than 500 decals have been inserted one at a time, the buffer
\* holds exactly the 500 most recently inserted ones, oldest first, and every
\* decal that is no longer in the buffer has been detached from its surface
\* (while the resident ones are still attached).
C2_FifoEviction ==
    LET n == Len(decalInfo)
    IN  n > MaxDecals =>
          /\ Len(decals) = MaxDecals
          /\ \A i \in 1..MaxDecals : decals[i] = n - MaxDecals + i
          /\ \A d \in 1..n :
               IF d <= n - MaxDecals
               THEN decalInfo[d].parent = NoNode
               ELSE decalInfo[d].parent \in Meshes

\* two decals have been evicted, one from each kind of surface
C2_Witness ==
    /\ Len(decalInfo) = MaxDecals + 2
    /\ decalInfo[1].parent = NoNode
    /\ decalInfo[2].parent = NoNode
    /\ decalInfo[3].parent = "deck"
    /\ decals[1] = 3

(***************************************************************************)
(* Claims about one update call of a registered projectile, checked under  *)
(* Spec.  TickUpdate holds in the state from which the forEach of          *)
(* AirDefence.update calls update(delta, box) on projectile Visiting.      *)
(***************************************************************************)
TickUpdate == tick.active /\ Head(tick.queue) # GunId
Visiting == Head(tick.queue)

\* C3: when the ray cast of a Flying projectile finds a surface and the
\* outcome is not a deflection, then at the end of that update call the
\* projectile is out of the registry and exactly one new decal has been
\* appended to the decal buffer.
C3_ImpactRemovesAndMarks ==
    [][(TickUpdate /\ last'.active /\ last'.found # <<>> /\ last'.resolved # "deflect")
         => /\ ~Registered(World', Visiting)
            /\ Len(decalInfo') = Len(decalInfo) + 1
            /\ decals' = IF Len(decals) < MaxDecals
                         THEN Append(decals, Len(decalInfo'))
                         ELSE Append(Tail(decals), Len(decalInfo'))]_vars

\* a projectile whose ray met the hull has impacted and left its decal
C3_Witness ==
    /\ last.resolved = "impact"
    /\ last.found # <<>>
    /\ last.found[1].object = "hull"
    /\ decals # <<>>
    /\ decals[Len(decals)] = last.decal
    /\ ~Registered(World, last.who)

\* C5: when an activated projectile is below the ground (y < 0) after the
\* integration of an update call, that call removes it from the registry,
\* creates no decal and invokes no hit callback.
C5_GroundTermination ==
    [][(TickUpdate /\ last'.active /\ last'.integrated
          /\ proj'[Visiting].position[2] < 0)
         => /\ ~Registered(World', Visiting)
            /\ decals' = decals
            /\ decalInfo' = decalInfo
            /\ hitLog' = hitLog]_vars

\* the second projectile of a burst has flown for a while and met the ground
C5_Witness ==
    /\ last.who = 2
    /\ last.ground
    /\ last.dt = last.delta
    /\ proj[2].position[2] < 0
    /\ ~Registered(World, 2)

\* C7: an update that leaves the elapsed time below zero changes neither
\* position nor velocity, casts no ray, creates no decal and keeps the
\* projectile registered; and an update treats the projectile as Flying
\* exactly when its elapsed time has reached zero.
C7_PendingFrame ==
    [][TickUpdate =>
         /\ last'.active = (proj[Visiting].et + tick.delta >= 0)
         /\ proj'[Visiting].visible = (proj'[Visiting].et >= 0)
         /\ (proj[Visiting].et + tick.delta < 0) =>
              /\ proj'[Visiting].position = proj[Visiting].position
              /\ proj'[Visiting].v = proj[Visiting].v
              /\ proj'[Visiting].intersects = proj[Visiting].intersects
              /\ raycaster' = raycaster
              /\ ~last'.cast
              /\ decals' = decals
              /\ decalInfo' = decalInfo
              /\ hitLog' = hitLog
              /\ Registered(World', Visiting)]_vars

\* the second projectile of a burst has sat out a tick inside the registry
C7_Witness ==
    /\ last.who = 2
    /\ ~last.active
    /\ last.delta \in Deltas
    /\ proj[2].et < 0
    /\ proj[2].position = proj[2].options.startPos
    /\ Registered(World, 2)

\* C8: in the tick in which a Pending projectile activates, with elapsed time
\* -r before the tick and 0 < r < delta, the duration the update works with is
\* delta - r.
C8_PostActivationPortion ==
    [][(TickUpdate /\ proj[Visiting].et < 0 /\ 0 < proj[Visiting].et + tick.delta)
         => last'.dt = tick.delta + proj[Visiting].et]_vars

\* C4: over the lifetime of a projectile the hit callback of a hittable
\* entity is invoked exactly once when the projectile strikes the entity
\* without deflecting (its ray meets a mesh of the entity and the outcome is
\* an impact), and at no other time: not in an update that deflects, not in
\* one that ends on the ground, not in one whose ray meets nothing, and not
\* again for a projectile it was already invoked for.
C4_HitCallbackOnce ==
    [][/\ (TickUpdate /\ last'.found # <<>> /\ last'.resolved = "impact"
             /\ Hittable(HostOf(last'.found[1].object)))
            => hitLog' = Append(hitLog, <<HostOf(last'.found[1].object), Visiting>>)
       /\ hitLog' # hitLog
            => /\ TickUpdate
               /\ last'.found # <<>>
               /\ last'.resolved = "impact"
               /\ hitLog' = Append(hitLog, <<HostOf(last'.found[1].object), Visiting>>)
               /\ \A k \in 1..Len(hitLog) : hitLog[k][2] # Visiting]_vars

\* C9: when the ray of a Flying projectile meets a surface at an incidence
\* with sin(angle)^4 <= 0.3, the update never deflects, whatever the random
\* draw: the projectile ends the update terminated by impact.
C9_SteepHitNeverDeflects ==
    [][(TickUpdate /\ last'.found # <<>>
          /\ deflectChanceOf(last'.found[1].normal, proj[Visiting].v) <= DeflectBias)
         => /\ last'.resolved = "impact"
            /\ ~Registered(World', Visiting)]_vars

(***************************************************************************)
(* Termination.  The render loop calls AirDefence.update again whenever it *)
(* can, and the forEach of a tick is synchronous: a tick that has begun    *)
(* makes every visit it owes and ends.                                     *)
(***************************************************************************)
FairSpec == Spec /\ WF_vars(BeginTick) /\ []<>~tick.active

InRegistry(id) == id <= Len(proj) /\ Registered(World, id)

\* C6: if the game keeps ticking, every projectile in the registry is
\* eventually removed from it: none stays Pending or Flying forever, however
\* often it deflects.
C6_EveryProjectileTerminates ==
    \A id \in 1..MaxProjectiles :
        ([]<>tick.active) => (InRegistry(id) ~> ~InRegistry(id))

\* a projectile that deflected in two separate ticks has left the registry
C6_Witness ==
    /\ last.who = 2
    /\ last.ground
    /\ Len(proj[2].intersects) >= 2
    /\ ~InRegistry(2)

(***************************************************************************)
(* Order of the updates within a tick.  updateInOrder runs the rest of the *)
(* forEach over the projectiles in a given order, each with its own random *)
(* draw, and collects what each update did to its projectile.              *)
(***************************************************************************)
OutcomeOf(w, id) ==
    [position |-> w.proj[id].position,
     v |-> w.proj[id].v,
     resolved |-> w.last.resolved,
     ground |-> w.last.ground]

RECURSIVE updateInOrder(_, _, _, _, _)
updateInOrder(w0, order, delta, box, draws) ==
    Only({
        IF order = <<>> THEN <<>>
        ELSE LET id == Head(order)
             IN  IF Registered(w, id)
                 THEN LET w1 == update(w, id, delta, box, draws[id])
                      IN  (id :> OutcomeOf(w1, id))
                            @@ updateInOrder(w1, Tail(order), delta, box, draws)
                 ELSE updateInOrder(w, Tail(order), delta, box, draws)
        : w \in {w0}})

Range(seq) == {seq[k] : k \in 1..Len(seq)}
Orders(seq) ==
    {o \in [1..Len(seq) -> Range(seq)] : \A i, j \in 1..Len(seq) : o[i] = o[j] => i = j}

DragShare(v, dt) ==
    VScale(NormalizedTimes(AddScaled(v, gravity, dt), -dragForceOf(Length(v))), dt)

\* C11: in a tick with no ray hit, gravity changes the vertical velocity of a
\* projectile by exactly -9.81 * d, d the duration the update works with: one
\* gravity impulse per tick (what is left of the change is the drag).
C11_OneGravityImpulse ==
    [][(TickUpdate /\ last'.integrated /\ last'.resolved = "none")
         => proj'[Visiting].v[2] - proj[Visiting].v[2]
                - DragShare(proj[Visiting].v, last'.dt)[2]
              = GravityY * last'.dt]_vars

(***************************************************************************)
(* Terrain.  A HeightfieldBuffer is a sequence of elevations (the typed    *)
(* array g, index i of the code is position i + 1) and a TerrainOptions    *)
(* object is a record.  Elevations are integers on a grid fine enough for  *)
(* the inputs used; ratios in [0, 1] (the argument and the value of an     *)
(* easing) are per mille.  The two values of a JavaScript number that are  *)
(* not on the grid are kept apart: Infinity and NaN, with the arithmetic   *)
(* of the language (0 / 0 is NaN, and NaN spreads through every            *)
(* operation and fails every comparison).                                  *)
(***************************************************************************)
Infinity == 1000000000
NaN == 1000000001

IsNaN(x) == x = NaN
IsFinite(x) == ~IsNaN(x) /\ Abs(x) # Infinity
\* a < b and a > b of the language
FLess(a, b) == ~IsNaN(a) /\ ~IsNaN(b) /\ a < b
\* a - b, a + b on elevations
FSub(a, b) == IF IsNaN(a) \/ IsNaN(b) THEN NaN ELSE a - b
FAdd(a, b) == IF IsNaN(a) \/ IsNaN(b) THEN NaN ELSE a + b
\* a / b of two elevations, as a ratio per mille
FRatio(a, b) ==
    IF IsNaN(a) \/ IsNaN(b) THEN NaN
    ELSE IF b = 0 THEN (IF a = 0 THEN NaN ELSE Sgn(a) * Infinity)
    ELSE Quot(a * 1000, b)
\* ratio * elevation
FScale(t, h) ==
    IF IsNaN(t) \/ IsNaN(h) THEN NaN
    ELSE IF Abs(t) = Infinity
         THEN (IF h = 0 THEN NaN ELSE Sgn(t) * Sgn(h) * Infinity)
         ELSE Quot(t * h, 1000)

\* the randomness interpolation functions, on ratios per mille
Linear(x) == x
EaseIn(x) == IF IsNaN(x) THEN NaN ELSE Quot(x * x, 1000)
EaseOut(x) == IF IsNaN(x) THEN NaN ELSE Quot(-x * (x - 2000), 1000)
EaseInOut(x) ==
    IF IsNaN(x) THEN NaN ELSE Quot(Quot(x * x, 1000) * (3000 - 2 * x), 1000)
InEaseOut(x) ==
    IF IsNaN(x) THEN NaN
    ELSE Only({Quot(Quot(Quot(y * y, 1000) * y, 1000), 2) + 500 : y \in {2 * x - 1000}})
Easings == {"Linear", "EaseIn", "EaseOut", "EaseInOut", "InEaseOut"}
\* options.easing(x)
Ease(easing, x) ==
    CASE easing = "Linear" -> Linear(x)
      [] easing = "EaseIn" -> EaseIn(x)
      [] easing = "EaseOut" -> EaseOut(x)
      [] easing = "EaseInOut" -> EaseInOut(x)
      [] easing = "InEaseOut" -> InEaseOut(x)

\* a flag of the options object is "true", "false" or "undefined"
Truthy(flag) == flag = "true"

\* the smallest and the largest cell, found as lines 16-24 find them
RECURSIVE MinOf(_, _)
MinOf(g, min) ==
    IF g = <<>> THEN min
    ELSE MinOf(Tail(g), IF FLess(Head(g), min) THEN Head(g) ELSE min)
RECURSIVE MaxOf(_, _)
MaxOf(g, max) ==
    IF g = <<>> THEN max
    ELSE MaxOf(Tail(g), IF FLess(max, Head(g)) THEN Head(g) ELSE max)

\* Clamp with the cells offset by the smallest cell found, not by minHeight
Clamp_OffsetByFound(g0, options0) ==
    Only({
        LET actualRange == FSub(max, min)
            optMax == options.maxHeight
            optMin == options.minHeight
            targetMax0 == IF Truthy(options.stretch) THEN optMax
                          ELSE IF FLess(max, optMax) THEN max ELSE optMax
            targetMin == IF Truthy(options.stretch) THEN optMin
                         ELSE IF FLess(optMin, min) THEN min ELSE optMin
            targetMax == IF FLess(targetMax0, targetMin) THEN optMax ELSE targetMax0
            range == FSub(targetMax, targetMin)
        IN  [g |-> [i \in 1..Len(g0) |->
                      FAdd(FScale(Ease(options.easing,
                                       FRatio(FSub(g0[i], min), actualRange)),
                                  range),
                           min)],
             options |-> options]
        : min \in {MinOf(g0, Infinity)}, max \in {MaxOf(g0, -Infinity)},
          options \in {[options0 EXCEPT !.easing = IF @ = "undefined" THEN "Linear" ELSE @]}})

\* Clamp(g, options): the buffer and the options object after the call
Clamp(g0, options0) ==
    Only({
        LET actualRange == FSub(max, min)
            optMax == options.maxHeight
            optMin == options.minHeight
            targetMax0 == IF Truthy(options.stretch) THEN optMax
                          ELSE IF FLess(max, optMax) THEN max ELSE optMax
            targetMin == IF Truthy(options.stretch) THEN optMin
                         ELSE IF FLess(optMin, min) THEN min ELSE optMin
            targetMax == IF FLess(targetMax0, targetMin) THEN optMax ELSE targetMax0
            range == FSub(targetMax, targetMin)
        IN  [g |-> [i \in 1..Len(g0) |->
                      FAdd(FScale(Ease(options.easing,
                                       FRatio(FSub(g0[i], min), actualRange)),
                                  range),
                           optMin)],
             options |-> options]
        : min \in {MinOf(g0, Infinity)}, max \in {MaxOf(g0, -Infinity)},
          options \in {[options0 EXCEPT !.easing = IF @ = "undefined" THEN "Linear" ELSE @]}})

(***************************************************************************)
(* Terrain calls on their own: a buffer and an options object are given,   *)
(* one call is made, and the state keeps what was given next to what the   *)
(* call left behind.                                                       *)
(***************************************************************************)
MaxCells == 3
Elevations == {-50, 0, 30, 200}
Buffers == UNION {[1..n -> Elevations] : n \in 0..MaxCells}
HeightBounds == {-100, 0, 100}
ClampOptions ==
    { o \in [minHeight : HeightBounds, maxHeight : HeightBounds,
              stretch : {"true", "false", "undefined"},
              easing : Easings \cup {"undefined"}] :
        o.minHeight <= o.maxHeight }

Given(g, options) ==
    [call |-> "ready", given |-> [g |-> g, options |-> options],
     g |-> g, options |-> options]
Returned(name, r) ==
    [heightfield EXCEPT !.call = name, !.g = r.g, !.options = r.options]

InitClamp ==
    /\ NewGame
    /\ heightfield \in {Given(g, o) : g \in Buffers, o \in ClampOptions}

ClampCall ==
    /\ heightfield.call = "ready"
    /\ heightfield' = Returned("Clamp", Clamp(heightfield.g, heightfield.options))
    /\ UNCHANGED <<proj, objects, decals, decalInfo, hitLog, raycaster,
                   fireCooldown, isFiring, shipLoaded, tick, last>>

SpecClamp == InitClamp /\ [][ClampCall]_vars

NonConstant(g) == \E i, j \in 1..Len(g) : g[i] # g[j]
SmallestOf(g) == CHOOSE x \in {g[i] : i \in 1..Len(g)} : \A i \in 1..Len(g) : x <= g[i]
LargestOf(g) == CHOOSE x \in {g[i] : i \in 1..Len(g)} : \A i \in 1..Len(g) : x >= g[i]

\* C12: after Clamp of a buffer whose cells are not all equal, with
\* stretch = true, the smallest cell of the buffer is minHeight and the
\* largest is maxHeight.
C12_StretchFillsRange ==
    (/\ heightfield.call = "Clamp"
     /\ NonConstant(heightfield.given.g)
     /\ Truthy(heightfield.given.options.stretch))
      => /\ \A i \in 1..Len(heightfield.g) : IsFinite(heightfield.g[i])
         /\ SmallestOf(heightfield.g) = heightfield.given.options.minHeight
         /\ LargestOf(heightfield.g) = heightfield.given.options.maxHeight

\* a buffer stretched over [-100, 100]: the cell between the extremes is eased
C12_Witness ==
    /\ heightfield.call = "Clamp"
    /\ heightfield.given.g = <<30, -50, 200>>
    /\ heightfield.given.options =
         [minHeight |-> -100, maxHeight |-> 100, stretch |-> "true",
          easing |-> "EaseInOut"]
    /\ heightfield.g[2] = -100
    /\ heightfield.g[3] = 100
    /\ heightfield.g[1] \notin {-100, 100}

\* targetMin of lines 27-29
TargetMin(g, options) ==
    IF Truthy(options.stretch) THEN options.minHeight
    ELSE IF FLess(options.minHeight, MinOf(g, Infinity)) THEN MinOf(g, Infinity)
         ELSE options.minHeight

\* C13: when every cell of the buffer given to Clamp has the same value, every
\* cell of the result is a finite number, the target minimum; none is NaN.
C13_FlatBufferStaysFinite ==
    (/\ heightfield.call = "Clamp"
     /\ ~NonConstant(heightfield.given.g))
      => \A i \in 1..Len(heightfield.g) :
            /\ IsFinite(heightfield.g[i])
            /\ heightfield.g[i] = TargetMin(heightfield.given.g, heightfield.given.options)

(***************************************************************************)
(* Step(g, levels).                                                        *)
(***************************************************************************)
MaxStepCells == 4
MaxLevels == 3
StepElevations == {0, 12, 24, 60}
StepBuffers == UNION {[1..n -> StepElevations] : n \in 0..MaxStepCells}

\* heights.sort((a, b) => a - b)
RECURSIVE InsertHeight(_, _)
InsertHeight(sorted, h) ==
    IF sorted = <<>> THEN <<h>>
    ELSE IF h < Head(sorted) THEN <<h>> \o sorted
    ELSE <<Head(sorted)>> \o InsertHeight(Tail(sorted), h)
RECURSIVE SortHeights(_)
SortHeights(hs) ==
    IF hs = <<>> THEN <<>>
    ELSE InsertHeight(SortHeights(Tail(hs)), Head(hs))

\* Array.prototype.slice(from, to) of a sequence, indices from 0
Slice(seq, from, to) ==
    SubSeq(seq, Min2(from, Len(seq)) + 1, Min2(to, Len(seq)))
RECURSIVE SumOf(_)
SumOf(seq) == IF seq = <<>> THEN 0 ELSE Head(seq) + SumOf(Tail(seq))
\* sum / bl, on the grid; 0 / 0 is NaN
Mean(sum, bl) == IF bl = 0 THEN NaN ELSE Quot(sum, bl)

\* lines 322-335: bucket i holds the i-th run of inc sorted heights; the min
\* and max of an empty subset are undefined, which fails every comparison
BucketsOf(g, levels) ==
    Only({[i \in 1..levels |->
             Only({[size |-> Len(subset),
                    min |-> IF subset = <<>> THEN NaN ELSE subset[1],
                    max |-> IF subset = <<>> THEN NaN ELSE subset[Len(subset)],
                    avg |-> Mean(SumOf(subset), Len(subset))]
                   : subset \in {Slice(heights, (i - 1) * inc, i * inc)}})]
          : heights \in {SortHeights(g)}, inc \in {Len(g) \div levels}})

\* lines 339-346: the first bucket whose range holds the height, or 0
RECURSIVE FirstBucket(_, _, _)
FirstBucket(buckets, startHeight, j) ==
    IF j > Len(buckets) THEN 0
    ELSE IF /\ ~FLess(startHeight, buckets[j].min) /\ ~IsNaN(buckets[j].min)
            /\ ~FLess(buckets[j].max, startHeight) /\ ~IsNaN(buckets[j].max)
         THEN j
         ELSE FirstBucket(buckets, startHeight, j + 1)

\* Step(g, levels): the buffer after the call
Step(g, levels) ==
    Only({[i \in 1..Len(g) |->
             Only({IF j = 0 THEN g[i] ELSE buckets[j].avg
                   : j \in {FirstBucket(buckets, g[i], 1)}})]
          : buckets \in {BucketsOf(g, levels)}})

InitStep ==
    /\ NewGame
    /\ heightfield \in {Given(g, [levels |-> n]) : g \in StepBuffers, n \in 1..MaxLevels}

StepCall ==
    /\ heightfield.call = "ready"
    /\ heightfield' = Returned("Step", [g |-> Step(heightfield.g, heightfield.options.levels),
                                        options |-> heightfield.options])
    /\ UNCHANGED <<proj, objects, decals, decalInfo, hitLog, raycaster,
                   fireCooldown, isFiring, shipLoaded, tick, last>>

SpecStep == InitStep /\ [][StepCall]_vars

\* C14: for every buffer length l and every levels >= 1, Step gives every cell
\* a bucket, the sizes of the buckets sum to l, every cell of the result is
\* the mean of the original values of the cell's bucket, and so the result
\* has at most `levels' distinct values.
C14_StepBucketsCoverBuffer ==
    heightfield.call = "Step"
      => LET g0 == heightfield.given.g
             levels == heightfield.given.options.levels
             buckets == BucketsOf(g0, levels)
         IN  /\ SumOf([j \in 1..levels |-> buckets[j].size]) = Len(g0)
             /\ \A i \in 1..Len(g0) :
                  /\ FirstBucket(buckets, g0[i], 1) # 0
                  /\ heightfield.g[i] = buckets[FirstBucket(buckets, g0[i], 1)].avg
             /\ Cardinality({heightfield.g[i] : i \in 1..Len(g0)}) <= levels

(***************************************************************************)
(* Heightmap images.  An image is the data of a canvas: one <<r, g, b, a>> *)
(* per pixel, row by row, each component an unsigned byte.  Drawing an     *)
(* image onto a canvas of its own size and reading the canvas back gives   *)
(* the same bytes.  The elevations fromHeightmap writes are kept exactly,  *)
(* in units of 1/765 of the grid (765 = 3 * 255 is the divisor of line 29).*)
(***************************************************************************)
MaxSegments == 1
Undefined == 1000000002
ByteMax == 255
ByteSum == 765

IsUndefined(x) == x = Undefined
\* a numeric operand: undefined converts to NaN
Num(x) == IF IsUndefined(x) THEN NaN ELSE x
\* g[k] of a typed array, undefined past its end
At(g, k) == IF k < Len(g) THEN g[k + 1] ELSE Undefined

\* Math.round(num / den * 255) stored in a Uint8ClampedArray: NaN is stored
\* as 0, and the value is clamped to 0..255
ToByte(num, den) ==
    IF IsNaN(num) \/ IsNaN(den) THEN 0
    ELSE IF den = 0
         THEN (IF num > 0 THEN ByteMax ELSE 0)
         ELSE Only({Max2(0, Min2(ByteMax, r))
                    : r \in {IF den > 0
                             THEN (2 * num * ByteMax + den) \div (2 * den)
                             ELSE (-2 * num * ByteMax - den) \div (-2 * den)}})

\* lines 56-64: the largest and smallest of g[2], g[5], g[8], ...
RECURSIVE ScanThird(_, _, _, _)
ScanThird(g, k, max2, min2) ==
    IF k >= Len(g) THEN [max |-> max2, min |-> min2]
    ELSE ScanThird(g, k + 3,
                   IF FLess(max2, At(g, k)) THEN At(g, k) ELSE max2,
                   IF FLess(At(g, k), min2) THEN At(g, k) ELSE min2)

\* toHeightmap with the cell of a pixel read at g[i], not at g[i * 3 + 2]
toHeightmap_FlatIndex(g, options) ==
    Only({[i \in 1..((options.ySegments + 1) * (options.xSegments + 1)) |->
             Only({<<b, b, b, ByteMax>>
                   : b \in {ToByte(FSub(Num(At(g, i - 1)), min), FSub(max, min))}})]
          : max \in {IF IsUndefined(options.maxHeight)
                     THEN ScanThird(g, 2, -Infinity, Infinity).max
                     ELSE options.maxHeight},
            min \in {IF IsUndefined(options.minHeight)
                     THEN ScanThird(g, 2, -Infinity, Infinity).min
                     ELSE options.minHeight}})

\* toHeightmap(g, options): the data of the canvas it returns
toHeightmap(g, options) ==
    Only({[i \in 1..((options.ySegments + 1) * (options.xSegments + 1)) |->
             Only({<<b, b, b, ByteMax>>
                   : b \in {ToByte(FSub(Num(At(g, (i - 1) * 3 + 2)), min),
                                   FSub(max, min))}})]
          : max \in {IF IsUndefined(options.maxHeight)
                     THEN ScanThird(g, 2, -Infinity, Infinity).max
                     ELSE options.maxHeight},
            min \in {IF IsUndefined(options.minHeight)
                     THEN ScanThird(g, 2, -Infinity, Infinity).min
                     ELSE options.minHeight}})

\* fromHeightmap(g, options) with options.heightmap an image of the size of
\* the grid: the cells written, in units of 1/765
fromHeightmap(data, options) ==
    Only({[i \in 1..((options.ySegments + 1) * (options.xSegments + 1)) |->
             IF IsNaN(spread) \/ IsNaN(Num(options.minHeight)) THEN NaN
             ELSE (data[i][1] + data[i][2] + data[i][3]) * spread
                    + ByteSum * options.minHeight]
          : spread \in {FSub(Num(options.maxHeight), Num(options.minHeight))}})

\* the elevations of a grid as a vertex position array: x, y, z per vertex
RECURSIVE Positions(_, _)
Positions(cells, i) ==
    IF i > Len(cells) THEN <<>>
    ELSE <<i, -i, cells[i]>> \o Positions(cells, i + 1)

ImageElevations == {-100, 41, 100}
GridOptions ==
    [xSegments : 0..MaxSegments, ySegments : 0..MaxSegments,
     minHeight : {-100, 41}, maxHeight : {41, 100, Undefined}]

InitImage ==
    /\ NewGame
    /\ \E o \in GridOptions :
         \E cells \in [1..((o.ySegments + 1) * (o.xSegments + 1)) -> ImageElevations] :
           \E layout \in {"flat", "positions"} :
             heightfield =
               [call |-> "ready",
                given |-> [cells |-> cells, layout |-> layout, options |-> o],
                g |-> IF layout = "flat" THEN cells ELSE Positions(cells, 1),
                options |-> o,
                image |-> <<>>]

ToHeightmapCall ==
    /\ heightfield.call = "ready"
    /\ heightfield' = [heightfield EXCEPT
                         !.call = "toHeightmap",
                         !.image = toHeightmap(heightfield.g, heightfield.options)]
    /\ UNCHANGED <<proj, objects, decals, decalInfo, hitLog, raycaster,
                   fireCooldown, isFiring, shipLoaded, tick, last>>

FromHeightmapCall ==
    /\ heightfield.call = "toHeightmap"
    /\ heightfield' = [heightfield EXCEPT
                         !.call = "fromHeightmap",
                         !.g = fromHeightmap(heightfield.image, heightfield.options)]
    /\ UNCHANGED <<proj, objects, decals, decalInfo, hitLog, raycaster,
                   fireCooldown, isFiring, shipLoaded, tick, last>>

SpecImage == InitImage /\ [][ToHeightmapCall \/ FromHeightmapCall]_vars

\* the buffer's elevations all lie in [minHeight, maxHeight]
WithinBounds(cells, options) ==
    /\ ~IsUndefined(options.minHeight)
    /\ ~IsUndefined(options.maxHeight)
    /\ \A i \in 1..Len(cells) :
         options.minHeight <= cells[i] /\ cells[i] <= options.maxHeight

\* every cell read back is within (maxHeight - minHeight) / 255 of the cell
\* that was written
ReadBackClose ==
    /\ Len(heightfield.g) = Len(heightfield.given.cells)
    /\ \A i \in 1..Len(heightfield.g) :
         /\ IsFinite(heightfield.g[i])
         /\ Abs(heightfield.g[i] - ByteSum * heightfield.given.cells[i])
              <= 3 * (heightfield.given.options.maxHeight
                        - heightfield.given.options.minHeight)

\* C15: a buffer with every elevation in [minHeight, maxHeight], written with
\* toHeightmap and read back from the image of the same size with
\* fromHeightmap under the same options, comes back with every elevation
\* within (maxHeight - minHeight) / 255 of the original.
C15_RoundTrip ==
    (/\ heightfield.call = "fromHeightmap"
     /\ WithinBounds(heightfield.given.cells, heightfield.given.options))
      => ReadBackClose

\* C15, amended: the same, when the elevations are given to toHeightmap as
\* the z components of a vertex position array (x, y, z per vertex).
C15_RoundTripOfPositions ==
    (/\ heightfield.call = "fromHeightmap"
     /\ heightfield.given.layout = "positions"
     /\ WithinBounds(heightfield.given.cells, heightfield.given.options))
      => ReadBackClose

\* a 2 x 2 grid read back: 41 is quantized (to byte 180, which reads as
\* 41.18), the others are exact
C15_Witness ==
    /\ heightfield.call = "fromHeightmap"
    /\ heightfield.given.layout = "positions"
    /\ heightfield.given.cells = <<-100, 41, 41, 100>>
    /\ heightfield.given.options =
         [xSegments |-> 1, ySegments |-> 1, minHeight |-> -100, maxHeight |-> 100]
    /\ heightfield.image[2][1] = 180
    /\ heightfield.g[2] # ByteSum * 41
    /\ heightfield.g[4] = ByteSum * 100

(***************************************************************************)
(* Generators.  A generator computes, from the options and its random      *)
(* draws alone, one number per cell (a curve, a noise value, the cell of a *)
(* separate heightmap, a sum of displacements) and adds it to the cell.    *)
(* The numbers are the field: what the generator computes for one fixed    *)
(* sequence of draws.  Value and Weierstrass go on to call Clamp on the    *)
(* buffer.                                                                 *)
(***************************************************************************)
MaxGenCells == 2
PriorElevations == {0, 30}
FieldValues == {-120, -40, 60}

\* g[k] += field[k], for every cell
AddField(g, field) == [k \in 1..Len(g) |-> FAdd(g[k], field[k])]

Additive == {"Curve", "Cosine", "DiamondSquare", "Fault", "Hill", "Perlin", "Simplex"}
Generators == Additive \cup {"Value", "Weierstrass"}

\* method(g, options) under the draws that give the field: the buffer after
Generate(method, g, options, field) ==
    CASE method \in Additive -> AddField(g, field)
      [] method = "Weierstrass" -> Clamp(AddField(g, field), options).g
      [] method = "Value" ->
           Clamp(AddField(g, field),
                 [maxHeight |-> options.maxHeight, minHeight |-> options.minHeight,
                  stretch |-> "true", easing |-> "undefined"]).g

Zeros(n) == [k \in 1..n |-> 0]

InitGenerate ==
    /\ NewGame
    /\ \E n \in 1..MaxGenCells, method \in Generators, o \in ClampOptions :
         \E g \in [1..n -> PriorElevations], field \in [1..n -> FieldValues] :
           heightfield =
             [call |-> "ready",
              given |-> [g |-> g, options |-> o, method |-> method, field |-> field],
              g |-> g, options |-> o]

GenerateCall ==
    /\ heightfield.call = "ready"
    /\ heightfield' = [heightfield EXCEPT
                         !.call = "generate",
                         !.g = Generate(heightfield.given.method, heightfield.g,
                                        heightfield.options, heightfield.given.field)]
    /\ UNCHANGED <<proj, objects, decals, decalInfo, hitLog, raycaster,
                   fireCooldown, isFiring, shipLoaded, tick, last>>

SpecGenerate == InitGenerate /\ [][GenerateCall]_vars

\* C16: a generator only adds to the cells: under one sequence of random
\* draws, the buffer it leaves is, cell by cell, the buffer it was given plus
\* the buffer it leaves when given zeros.
C16_GeneratorsOnlyAdd ==
    heightfield.call = "generate"
      => \A k \in 1..Len(heightfield.g) :
            heightfield.g[k] =
              FAdd(heightfield.given.g[k],
                   Generate(heightfield.given.method, Zeros(Len(heightfield.g)),
                            heightfield.given.options, heightfield.given.field)[k])

(***************************************************************************)
(* Smooth(g, options): every cell becomes the mean of its neighbourhood.   *)
(***************************************************************************)
InGrid(options, i, j) ==
    i >= 0 /\ j >= 0 /\ i < options.xSegments + 1 /\ j < options.ySegments + 1
\* key = (j + n) * xl + i + m
KeyOf(options, i, j) == j * (options.xSegments + 1) + i
\* typeof a[key] !== 'undefined', for an array of n elements that are defined
Defined(n, key) == key >= 0 /\ key < n
Around == {-1, 0, 1}
\* the <<n, m>> that lines 190-193 accept around (i, j)
Neighbourhood(g, options, i, j) ==
    { nm \in Around \X Around :
        /\ Defined(Len(g), KeyOf(options, i + nm[2], j + nm[1]))
        /\ InGrid(options, i + nm[2], j + nm[1]) }
RECURSIVE SumAt(_, _)
SumAt(g, keys) ==
    IF keys = {} THEN 0
    ELSE Only({g[key + 1] + SumAt(g, keys \ {key}) : key \in {CHOOSE key \in keys : TRUE}})
Smooth(g, options) ==
    [k \in 1..Len(g) |->
       Only({Only({Mean(SumAt(g, {KeyOf(options, i + nm[2], j + nm[1]) : nm \in near}),
                        Cardinality(near))
                   : near \in {Neighbourhood(g, options, i, j)}})
             : i \in {(k - 1) % (options.xSegments + 1)},
               j \in {(k - 1) \div (options.xSegments + 1)}})]

(***************************************************************************)
(* Brownian(g, options).  The walk is followed one pass of its main loop   *)
(* at a time, and within a pass one look in a new direction at a time.     *)
(* Vertices are known by their index in the vertices array; a position     *)
(* (x, y) or (u, v) of the walk is in tenths of a grid spacing, and the    *)
(* random direction is one of eight unit vectors.                          *)
(***************************************************************************)
MaxWalkSegments == 1
MaxLooks == 9
Directions ==
    {<<10, 0>>, <<7, 7>>, <<0, 10>>, <<-7, 7>>, <<-10, 0>>, <<-7, -7>>, <<0, -10>>, <<7, -7>>}
\* Math.random() where it sets a height, per mille
HeightDraws == {0, 999}

\* Math.round of a position
Round(t) == (t + 5) \div 10
\* a % b of the language (the sign of a)
JsRem(a, b) == IF a >= 0 THEN a % b ELSE -((-a) % b)
\* Math.random() where it sets lastAdjust, per mille
AdjustDraws == {0, 999}
\* x^1.55 per mille, tabulated at the draws
EaseInWeak(x) == CASE x = 0 -> 0 [] x = 999 -> 998

\* while (Math.round(u) === i && Math.round(v) === j) { u += addX; v += addY; }
RECURSIVE Advance(_, _, _, _, _)
Advance(u, v, i, j, add) ==
    IF Round(u) = i /\ Round(v) = j
    THEN Advance(u + add[1], v + add[2], i, j, add)
    ELSE <<u, v>>

\* touched.indexOf(vertices[key]) !== -1
IsTouched(b, key) == \E t \in 1..Len(b.touched) : b.touched[t] = key
\* the neighbours the two scans of a pass look at: n && m leaves the diagonal
Diagonal == <<<<-1, -1>>, <<-1, 1>>, <<1, -1>>, <<1, 1>>>>
Scanned(b, nm, wantTouched) ==
    /\ Defined(Len(b.vertices), KeyOf(b.options, b.i + nm[2], b.j + nm[1]))
    /\ IsTouched(b, KeyOf(b.options, b.i + nm[2], b.j + nm[1])) = wantTouched
    /\ InGrid(b.options, b.i + nm[2], b.j + nm[1])

\* lines 40-47: the untouched neighbours are pushed on the untouched list
Mark(b) ==
    Only({[b EXCEPT !.untouched =
             @ \o [t \in 1..Len(found) |->
                     KeyOf(b.options, b.i + found[t][2], b.j + found[t][1])]]
          : found \in {SelectSeq(Diagonal, LAMBDA nm : Scanned(b, nm, FALSE))}})

\* untouched.splice(at, 1)
SpliceOut(seq, at) ==
    [t \in 1..(Len(seq) - (IF at < Len(seq) THEN 1 ELSE 0)) |->
       IF t <= at THEN seq[t] ELSE seq[t + 1]]
\* untouched.indexOf(current), from 0, or -1
RECURSIVE IndexOf(_, _, _)
IndexOf(seq, x, from) ==
    IF from >= Len(seq) THEN -1
    ELSE IF seq[from + 1] = x THEN from ELSE IndexOf(seq, x, from + 1)

\* lines 51-59 and 98-107: a random untouched vertex becomes current
Restart(b0, pick, dir) ==
    Only({[b0 EXCEPT !.current = current,
                     !.untouched = SpliceOut(b0.untouched, pick),
                     !.add = dir,
                     !.i = JsRem(index, b0.options.xSegments + 1),
                     !.j = index \div (b0.options.xSegments + 1),
                     !.x = 10 * JsRem(index, b0.options.xSegments + 1),
                     !.y = 10 * (index \div (b0.options.xSegments + 1))]
          : current \in {At(b0.untouched, pick)},
            index \in {IF IsUndefined(At(b0.untouched, pick)) THEN -1
                       ELSE At(b0.untouched, pick)}})

\* lines 110-128: the height of current, then touched.push(current); the
\* assignment to current.z throws when current is undefined
Settle(b0, redraw, adjust) ==
    Only({
        IF near = {} THEN [b0 EXCEPT !.touched = Append(@, b0.current), !.pc = "loop"]
        ELSE Only({
               IF IsUndefined(b0.current)
               THEN [b0 EXCEPT !.lastAdjust = la, !.pc = "thrown"]
               ELSE [b0 EXCEPT
                       !.lastAdjust = la,
                       !.vertices[b0.current + 1] =
                           Mean(SumAt(b0.vertices, near), Cardinality(near))
                             + Quot(EaseInWeak(la) * mha * 2, 1000) - mha,
                       !.touched = Append(@, b0.current),
                       !.pc = "loop"]
               : la \in {IF b0.lastAdjust = 0 \/ redraw THEN adjust ELSE b0.lastAdjust},
                 mha \in {ISqrt(b0.options.maxHeight - b0.options.minHeight)}})
        : near \in {{KeyOf(b0.options, b0.i + Diagonal[t][2], b0.j + Diagonal[t][1]) :
                       t \in {t \in 1..Len(Diagonal) : Scanned(b0, Diagonal[t], TRUE)}}}})

\* lines 62-71: walk on in the current direction to the next vertex; the row
\* j is set from u
FirstMove(b0) ==
    Only({[b0 EXCEPT !.u = uv[1], !.v = uv[2],
                     !.i = Round(uv[1]), !.j = Round(uv[1]),
                     !.k = 0, !.pc = "look"]
          : uv \in {Advance(b0.x, b0.y, b0.i, b0.j, b0.add)}})

\* the condition of the for loop of line 74
StillLooking(b) ==
    /\ InGrid(b.options, b.i, b.j)
    /\ IsTouched(b, KeyOf(b.options, b.i, b.j))
    /\ b.k < MaxLooks

\* lines 75-82: one look in a new random direction
Look(b0, dir) ==
    Only({[b0 EXCEPT !.add = dir, !.u = uv[1], !.v = uv[2],
                     !.i = Round(uv[1]), !.j = Round(uv[2]), !.k = @ + 1]
          : uv \in {Advance(b0.u, b0.v, b0.i, b0.j, dir)}})

\* lines 86-107: the vertex the walk arrived at becomes current when it is in
\* the grid and untouched, a random untouched vertex otherwise
Arrive(b0, pick, dir) ==
    IF InGrid(b0.options, b0.i, b0.j) /\ ~IsTouched(b0, KeyOf(b0.options, b0.i, b0.j))
    THEN Only({[b0 EXCEPT !.x = b0.u, !.y = b0.v, !.current = current,
                          !.untouched = IF io # -1 THEN SpliceOut(@, io) ELSE @]
               : current \in {KeyOf(b0.options, b0.i, b0.j)},
                 io \in {IndexOf(b0.untouched, KeyOf(b0.options, b0.i, b0.j), 0)}})
    ELSE Restart(b0, pick, dir)

WalkOptions ==
    [xSegments : 0..MaxWalkSegments, ySegments : 0..MaxWalkSegments,
     xSize : {1024}, ySize : {1024}, minHeight : {0}, maxHeight : {100}]

InitBrownian ==
    /\ NewGame
    /\ \E o \in WalkOptions :
         heightfield =
           [call |-> "ready", pc |-> "ready",
            given |-> [g |-> Zeros((o.xSegments + 1) * (o.ySegments + 1)), options |-> o],
            g |-> Zeros((o.xSegments + 1) * (o.ySegments + 1)), options |-> o,
            vertices |-> <<>>, touched |-> <<>>, untouched |-> <<>>,
            i |-> 0, j |-> 0, x |-> 0, y |-> 0, u |-> 0, v |-> 0, k |-> 0,
            add |-> <<0, 0>>, current |-> Undefined, lastAdjust |-> 0]

\* the picks floor(Math.random() * n) can make
Picks(n) == 0..Max2(n - 1, 0)

\* lines 6-35: up to the first touched.push
BrownianStart ==
    /\ heightfield.call = "ready"
    /\ \E i0 \in Picks(heightfield.options.xSegments),
          j0 \in Picks(heightfield.options.ySegments),
          dir \in Directions, h \in HeightDraws :
         \E current \in {KeyOf(heightfield.options, i0, j0)} :
           heightfield' =
             [heightfield EXCEPT
                !.call = "Brownian", !.pc = "loop",
                !.vertices = [heightfield.g EXCEPT ![current + 1] =
                                Quot(h * (heightfield.options.maxHeight
                                            - heightfield.options.minHeight), 1000)
                                  + heightfield.options.minHeight],
                !.i = i0, !.j = j0, !.x = 10 * i0, !.y = 10 * j0,
                !.add = dir, !.current = current, !.touched = <<current>>]
    /\ UNCHANGED <<proj, objects, decals, decalInfo, hitLog, raycaster,
                   fireCooldown, isFiring, shipLoaded, tick, last>>

\* one pass of the main loop up to its first look: the neighbours are marked,
\* then the walk restarts (and the pass ends) or moves on
BrownianTurn ==
    /\ heightfield.call = "Brownian"
    /\ heightfield.pc = "loop"
    /\ Len(heightfield.touched) # Len(heightfield.vertices)
    /\ \E marked \in {Mark(heightfield)} :
         \/ \E pick \in Picks(Len(marked.untouched)), dir \in Directions,
               redraw \in BOOLEAN, adjust \in AdjustDraws :
              heightfield' = Settle(Restart(marked, pick, dir), redraw, adjust)
         \/ heightfield' = FirstMove(marked)
    /\ UNCHANGED <<proj, objects, decals, decalInfo, hitLog, raycaster,
                   fireCooldown, isFiring, shipLoaded, tick, last>>

\* the rest of a pass: another look while the vertex arrived at is touched,
\* then the new current vertex gets its height and is pushed on touched
BrownianLook ==
    /\ heightfield.call = "Brownian"
    /\ heightfield.pc = "look"
    /\ IF StillLooking(heightfield)
       THEN \E dir \in Directions : heightfield' = Look(heightfield, dir)
       ELSE \E pick \in Picks(Len(heightfield.untouched)), dir \in Directions,
               redraw \in BOOLEAN, adjust \in AdjustDraws :
              heightfield' = Settle(Arrive(heightfield, pick, dir), redraw, adjust)
    /\ UNCHANGED <<proj, objects, decals, decalInfo, hitLog, raycaster,
                   fireCooldown, isFiring, shipLoaded, tick, last>>

\* lines 131-137: the loop has ended; the heights are copied to g and smoothed
BrownianFinish ==
    /\ heightfield.call = "Brownian"
    /\ heightfield.pc = "loop"
    /\ Len(heightfield.touched) = Len(heightfield.vertices)
    /\ heightfield' = [heightfield EXCEPT
                         !.pc = "done",
                         !.g = Smooth(Smooth(heightfield.vertices, heightfield.options),
                                      heightfield.options)]
    /\ UNCHANGED <<proj, objects, decals, decalInfo, hitLog, raycaster,
                   fireCooldown, isFiring, shipLoaded, tick, last>>

SpecBrownian ==
    InitBrownian
      /\ [][BrownianStart \/ BrownianTurn \/ BrownianLook \/ BrownianFinish]_vars

\* C17: when the walk loop exits, every vertex of the grid is on the touched
\* list exactly once: the list has no duplicate and no undefined entry.
C17_EveryVertexTouchedOnce ==
    (heightfield.call = "Brownian" /\ heightfield.pc = "done")
      => /\ \A t \in 1..Len(heightfield.touched) : ~IsUndefined(heightfield.touched[t])
         /\ \A t, r \in 1..Len(heightfield.touched) :
              heightfield.touched[t] = heightfield.touched[r] => t = r
         /\ \A key \in 0..(Len(heightfield.vertices) - 1) : IsTouched(heightfield, key)

\* C18: Brownian terminates: the main loop, each pass of which pushes one
\* entry on touched, reaches touched.length = number of vertices and never
\* throws, whatever the grid and the draws.
C18_BrownianTerminates ==
    heightfield.call = "Brownian"
      => /\ heightfield.pc # "thrown"
         /\ Len(heightfield.touched) <= Len(heightfield.vertices)

\* ---------------------------------------------------------------------------
\* Analyze: the statistical report of a terrain mesh.  A mesh is its vertex
\* positions and the position of the mesh itself.  The fitted plane is solved
\* on the vertices relative to the centroid (the mesh's x and y, the mean
\* elevation as z); the mean is a ratio, so every residual is carried
\* multiplied by the number of vertices, which multiplies the three
\* determinants by the same positive factor and leaves their signs, their
\* order and the direction of the normal as the code computes them.
MaxVertices == 3

Abscissas == {-1, 0, 1}
Ordinates == {0, 1}
Altitudes == {0, 1, 2}
VertexPositions == {<<x, y, z>> : x \in Abscissas, y \in Ordinates, z \in Altitudes}
MeshPositions == {<<0, 0, 0>>, <<1, 0, 0>>}

Count(points) == Len(points)

toArray1D(points) == [i \in 1..Len(points) |-> points[i][3]]

\* points[i] - centroid, times n
Residual(point, position, zs) ==
    <<Len(zs) * (point[1] - position[1]),
      Len(zs) * (point[2] - position[2]),
      Len(zs) * point[3] - SumOf(zs)>>

RECURSIVE Moment(_, _, _)
Moment(rs, a, b) ==
    IF rs = <<>> THEN 0 ELSE Head(rs)[a] * Head(rs)[b] + Moment(Tail(rs), a, b)

Moments(points, position) ==
    Only({[xx |-> Moment(rs, 1, 1), xy |-> Moment(rs, 1, 2), xz |-> Moment(rs, 1, 3),
           yy |-> Moment(rs, 2, 2), yz |-> Moment(rs, 2, 3), zz |-> Moment(rs, 3, 3)]
            : rs \in {[i \in 1..Len(points) |->
                         Residual(points[i], position, toArray1D(points))]}})

Determinants(m) ==
    [x |-> m.yy * m.zz - m.yz * m.yz,
     y |-> m.xx * m.zz - m.xz * m.xz,
     z |-> m.xx * m.yy - m.xy * m.xy]

Max3(a, b, c) ==
    IF a >= b /\ a >= c THEN a ELSE IF b >= c THEN b ELSE c

maxDeterminant(d) == Max3(d.x, d.y, d.z)

Thrown(message) == [thrown |-> TRUE, message |-> message]
Normal(direction) == [thrown |-> FALSE, direction |-> direction]

getFittedPlaneNormal_NoSpanCheck(points, position) ==
    Only({
        IF 3 * Len(points) < 3
        THEN Thrown("At least three points are required to fit a plane")
        ELSE IF maxDeterminant(d) = d.x
        THEN Normal(<<d.x, m.xz * m.yz - m.xy * m.zz, m.xy * m.yz - m.xz * m.yy>>)
        ELSE IF maxDeterminant(d) = d.y
        THEN Normal(<<m.yz * m.xz - m.xy * m.zz, d.y, m.xy * m.xz - m.yz * m.xx>>)
        ELSE Normal(<<m.yz * m.xy - m.xz * m.yy, m.xz * m.xy - m.yz * m.xx, d.z>>)
          : m \in {Moments(points, position)}, d \in {Determinants(Moments(points, position))}})
getFittedPlaneNormal(points, position) ==
    Only({
        IF 3 * Len(points) < 3
        THEN Thrown("At least three points are required to fit a plane")
        ELSE IF maxDeterminant(d) <= 0
        THEN Thrown("The points don't span a plane")
        ELSE IF maxDeterminant(d) = d.x
        THEN Normal(<<d.x, m.xz * m.yz - m.xy * m.zz, m.xy * m.yz - m.xz * m.yy>>)
        ELSE IF maxDeterminant(d) = d.y
        THEN Normal(<<m.yz * m.xz - m.xy * m.zz, d.y, m.xy * m.xz - m.yz * m.xx>>)
        ELSE Normal(<<m.yz * m.xy - m.xz * m.yy, m.xz * m.xy - m.yz * m.xx, d.z>>)
          : m \in {Moments(points, position)}, d \in {Determinants(Moments(points, position))}})

NoReport == [returned |-> FALSE, sampleSize |-> 0, normal |-> <<0, 0, 0>>]

\* what a call of Analyze leaves: the error it throws or the report it returns
Analyze(mesh) ==
    IF Count(mesh.points) < 3
    THEN [error |-> "Not enough vertices to analyze", report |-> NoReport]
    ELSE Only({
        IF fitted.thrown
        THEN [error |-> fitted.message, report |-> NoReport]
        ELSE [error |-> "none",
              report |-> [returned |-> TRUE,
                          sampleSize |-> Len(toArray1D(mesh.points)),
                          normal |-> fitted.direction]]
          : fitted \in {getFittedPlaneNormal(mesh.points, mesh.position)}})

InitAnalyze ==
    /\ NewGame
    /\ \E n \in 0..MaxVertices, position \in MeshPositions :
         \E points \in [1..n -> VertexPositions] :
           heightfield = [call |-> "ready",
                          mesh |-> [points |-> points, position |-> position],
                          error |-> "none", report |-> NoReport]

AnalyzeCall ==
    /\ heightfield.call = "ready"
    /\ \E r \in {Analyze(heightfield.mesh)} :
         heightfield' = [heightfield EXCEPT !.call = "Analyze",
                                            !.error = r.error, !.report = r.report]
    /\ UNCHANGED <<proj, objects, decals, decalInfo, hitLog, raycaster,
                   fireCooldown, isFiring, shipLoaded, tick, last>>

SpecAnalyze == InitAnalyze /\ [][AnalyzeCall]_vars

\* C19: Analyze throws an error and returns no report when the mesh has
\* fewer than 3 vertices, and when none of the three determinants of the
\* fitted-plane solve is positive.
C19_AnalyzeRejectsDegenerateMesh ==
    heightfield.call = "Analyze"
      => ((\/ Count(heightfield.mesh.points) < 3
           \/ maxDeterminant(Determinants(Moments(heightfield.mesh.points,
                                                  heightfield.mesh.position))) <= 0)
            => /\ heightfield.error # "none"
               /\ ~heightfield.report.returned)

\* three vertices on the vertical through the mesh position: no determinant
\* is positive, and the plane fit has thrown
C19_Witness ==
    /\ heightfield.call = "Analyze"
    /\ heightfield.mesh.points = <<<<0, 0, 0>>, <<0, 0, 1>>, <<0, 0, 2>>>>
    /\ heightfield.mesh.position = <<0, 0, 0>>
    /\ heightfield.error = "The points don't span a plane"
    /\ ~heightfield.report.returned

\* ---------------------------------------------------------------------------
\* The options object across a call.  An object is passed by reference: what
\* a callee assigns to a field of its parameter is assigned on the caller's
\* object, and Object.assign({}, options) is a new object with the same
\* fields.  Frequencies are in tenths, amplitudes in hundredths, and the
\* placement map of ScatterHelper in thousandths.
MaxPasses == 2
MaxFieldCells == 3
DefaultFrequency == 25
ScatterUnit == 1000

\* !x of a number
Falsy(x) == x = 0 \/ IsNaN(x) \/ IsUndefined(x)

\* method(g, options): the buffer and the options object it leaves
Method(method, g, options, field) ==
    [g |-> Generate(method, g, options, field),
     options |-> IF method = "Weierstrass"
                 THEN Clamp(AddField(g, field), options).options
                 ELSE options]

heightmapArray(method, options0, field) ==
    Only({Only({Clamp(made.g, made.options)
                  : made \in {Method(method,
                                     Zeros((options.xSegments + 1) * (options.ySegments + 1)),
                                     options, field)}})
            : options \in {[options0 EXCEPT
                              !.minHeight = IF Falsy(@) THEN 0 ELSE @,
                              !.maxHeight = IF IsUndefined(@) THEN 1 ELSE @,
                              !.stretch = IF Truthy(@) THEN @ ELSE "false"]}})

\* draws[i] is Math.random() > threshold at cell i
ScatterHelper(method, options0, skip0, draws, field) ==
    Only({Only({[g |-> [i \in 1..Len(made.g) |->
                          IF (i - 1) % skip # 0 \/ draws[i] THEN ScatterUnit
                          ELSE made.g[i]],
                 options |-> options]
                  : made \in {heightmapArray(method,
                                             [options EXCEPT !.xSegments = @ * 2,
                                                             !.stretch = "true",
                                                             !.maxHeight = ScatterUnit,
                                                             !.minHeight = 0],
                                             field)}})
            : options \in {[options0 EXCEPT
                              !.frequency = IF Falsy(@) THEN DefaultFrequency ELSE @]},
              skip \in {IF Falsy(skip0) THEN 1 ELSE skip0}})

RECURSIVE MultiPassLoop(_, _, _, _, _)
MultiPassLoop(g, options, clonedOptions, passes, field) ==
    IF passes = <<>> THEN [g |-> g, options |-> options]
    ELSE Only({Only({MultiPassLoop(made.g, options, made.options, Tail(passes), field)
                       : made \in {Method(Head(passes).method, g,
                                          [clonedOptions EXCEPT
                                             !.maxHeight = options.maxHeight - move,
                                             !.minHeight = options.minHeight + move,
                                             !.frequency =
                                                IF IsUndefined(Head(passes).frequency)
                                                THEN options.frequency
                                                ELSE Head(passes).frequency],
                                          field)}})
                 : move \in {Quot((options.maxHeight - options.minHeight)
                                    * (100 - (IF IsUndefined(Head(passes).amplitude)
                                              THEN 100 ELSE Head(passes).amplitude)),
                                  200)}})

MultiPass(g, options, passes, field) == MultiPassLoop(g, options, options, passes, field)

CallerOptions ==
    [minHeight : {Undefined, -100, 0}, maxHeight : {Undefined, 100},
     stretch : {"true", "false", "undefined"}, easing : {"undefined", "EaseIn"},
     frequency : {Undefined, 50}, xSegments : {0, 1}, ySegments : {0}]
\* the options of a terrain: both heights are numbers
TerrainOptions ==
    {o \in CallerOptions : ~IsUndefined(o.minHeight) /\ ~IsUndefined(o.maxHeight)}
Fields == [1..MaxFieldCells -> {-40, 60}]
Passes ==
    [method : {"Perlin", "Weierstrass"}, amplitude : {Undefined, 50},
     frequency : {Undefined, DefaultFrequency}]
PassLists == UNION {[1..n -> Passes] : n \in 0..MaxPasses}
Entries == {"Clamp", "heightmapArray", "ScatterHelper", "MultiPass"}

Entered(entry, g, options, method, field, passes, skip, draws) ==
    [call |-> "ready", entry |-> entry,
     given |-> [g |-> g, options |-> options, method |-> method, field |-> field,
                passes |-> passes, skip |-> skip, draws |-> draws],
     g |-> g, options |-> options]

NoDraws == [i \in 1..MaxFieldCells |-> FALSE]
NoField == Zeros(MaxFieldCells)

InitOptions ==
    /\ NewGame
    /\ \/ \E o \in TerrainOptions, g \in [1..2 -> PriorElevations] :
            heightfield = Entered("Clamp", g, o, "none", NoField, <<>>, 0, NoDraws)
       \/ \E o \in CallerOptions, method \in Generators, field \in Fields :
            heightfield = Entered("heightmapArray", <<>>, o, method, field, <<>>, 0, NoDraws)
       \/ \E o \in CallerOptions, method \in {"Perlin", "Weierstrass"}, field \in Fields,
             skip \in {Undefined, 2}, draws \in [1..MaxFieldCells -> BOOLEAN] :
            heightfield = Entered("ScatterHelper", <<>>, o, method, field, <<>>, skip, draws)
       \/ \E o \in TerrainOptions, passes \in PassLists, field \in Fields :
            \E g \in [1..(o.xSegments + 1) -> PriorElevations] :
              heightfield = Entered("MultiPass", g, o, "none", field, passes, 0, NoDraws)

ClampOnCaller ==
    /\ heightfield.entry = "Clamp"
    /\ ClampCall

HeightmapArrayCall ==
    /\ heightfield.call = "ready"
    /\ heightfield.entry = "heightmapArray"
    /\ heightfield' = Returned("heightmapArray",
                               heightmapArray(heightfield.given.method, heightfield.options,
                                              heightfield.given.field))
    /\ UNCHANGED <<proj, objects, decals, decalInfo, hitLog, raycaster,
                   fireCooldown, isFiring, shipLoaded, tick, last>>

ScatterHelperCall ==
    /\ heightfield.call = "ready"
    /\ heightfield.entry = "ScatterHelper"
    /\ heightfield' = Returned("ScatterHelper",
                               ScatterHelper(heightfield.given.method, heightfield.options,
                                             heightfield.given.skip, heightfield.given.draws,
                                             heightfield.given.field))
    /\ UNCHANGED <<proj, objects, decals, decalInfo, hitLog, raycaster,
                   fireCooldown, isFiring, shipLoaded, tick, last>>

MultiPassCall ==
    /\ heightfield.call = "ready"
    /\ heightfield.entry = "MultiPass"
    /\ heightfield' = Returned("MultiPass",
                               MultiPass(heightfield.g, heightfield.options,
                                         heightfield.given.passes, heightfield.given.field))
    /\ UNCHANGED <<proj, objects, decals, decalInfo, hitLog, raycaster,
                   fireCooldown, isFiring, shipLoaded, tick, last>>

SpecOptions ==
    InitOptions
      /\ [][ClampOnCaller \/ HeightmapArrayCall \/ ScatterHelperCall \/ MultiPassCall]_vars

\* C20: when Clamp, heightmapArray, ScatterHelper or MultiPass has returned,
\* every field of the options object the caller passed has the value it had
\* before the call.
C20_CallerOptionsUnchanged ==
    heightfield.call \in Entries => heightfield.options = heightfield.given.options

(***************************************************************************)
(* Collision resolution, tick by tick, checked under Spec.                 *)
(***************************************************************************)
\* C21: in a tick in which the ray cast of a Flying projectile finds no
\* intersection, collision resolution does nothing: no deflection, no
\* impact, no decal and no hit callback, whatever was hit in earlier ticks.
C21_MissResolvesNothing ==
    [][(TickUpdate /\ last'.cast /\ last'.found = <<>>)
         => /\ last'.resolved = "none"
            /\ decals' = decals
            /\ decalInfo' = decalInfo
            /\ hitLog' = hitLog]_vars

\* Vector3.reflect(n).multiplyScalar(0.2) written out: 0.2 * (v - 2 (v.n) n)
Deflected(v, n) ==
    <<Quot(v[1] - 2 * (v[1] * n[1] + v[2] * n[2]) * n[1], DeflectKeep),
      Quot(v[2] - 2 * (v[1] * n[1] + v[2] * n[2]) * n[2], DeflectKeep)>>

\* C22: when the hit of a ray is resolved as a deflection, collision
\* resolution leaves the projectile in the registry with the incoming
\* velocity reflected about the normal of the surface struck and cut to 20%,
\* at the hit point moved by 0.01 x the new velocity; it makes no decal and
\* calls no hit callback.
C22_DeflectionReflects ==
    [][(TickUpdate /\ last'.found # <<>> /\ last'.resolved = "deflect")
         => /\ last'.ground \/ Registered(World', Visiting)
            /\ last'.v = Deflected(proj[Visiting].v, last'.found[1].normal)
            /\ last'.position = VAdd(last'.found[1].point, VQuot(last'.v, NudgeDiv))
            /\ decals' = decals
            /\ decalInfo' = decalInfo
            /\ hitLog' = hitLog]_vars

\* the gun's turn in a tick has fired: last is the record of the update that
\* fireProjectile gave the newest projectile
Fired == tick.active /\ Head(tick.queue) = GunId /\ Len(proj') > Len(proj)

\* C23: an update casts its ray only if the projectile's position when the
\* update starts is inside the bounding box the tick computed from the
\* hittable set; an update of a projectile outside the box, or without a
\* box, neither deflects nor ends in an impact.
C23_CastOnlyInsideBox ==
    [][/\ TickUpdate =>
            /\ last'.cast => /\ tick.box.given
                             /\ containsPoint(tick.box, proj[Visiting].position)
            /\ ~(tick.box.given /\ containsPoint(tick.box, proj[Visiting].position))
                 => /\ last'.resolved = "none"
                    /\ decals' = decals
                    /\ decalInfo' = decalInfo
                    /\ hitLog' = hitLog
       /\ Fired => /\ ~last'.cast
                   /\ last'.resolved = "none"
                   /\ decals' = decals
                   /\ hitLog' = hitLog]_vars

\* with the airship loaded, the projectile fired from high up has been
\* integrated in a tick above the box without a ray cast
C23_Witness ==
    /\ shipLoaded
    /\ last.who \in 1..Len(proj)
    /\ last.delta \in Deltas
    /\ last.active /\ last.integrated /\ ~last.cast
    /\ proj[last.who].options.startPos = <<-15000, 8000>>
    /\ proj[last.who].position[2] > 4000
    /\ proj[last.who].position[1] > -1000

\* the objects of the scene graph, and the ancestor chain of one of them,
\* itself first and the root last
SceneNodes == Meshes \cup {"ship", "aircraft", "scene"}
RECURSIVE ChainOf(_)
ChainOf(node) ==
    IF ParentOf(node) = NoNode THEN <<node>> ELSE <<node>> \o ChainOf(ParentOf(node))
\* the first hittable object of a chain, NoNode if it has none
NearestHittable(chain) ==
    IF \E k \in 1..Len(chain) : Hittable(chain[k])
    THEN chain[CHOOSE k \in 1..Len(chain) :
                 /\ Hittable(chain[k])
                 /\ \A j \in 1..(k - 1) : ~Hittable(chain[j])]
    ELSE NoNode

\* C24: on a hit that does not deflect, the hit callback is invoked on the
\* nearest hittable object of the struck mesh's ancestor chain, the mesh
\* itself first, and on no object when the chain has none; the search
\* stops at the root at the latest.
C24_CallbackOnNearestHittable ==
    [][/\ (TickUpdate /\ last'.found # <<>> /\ last'.resolved = "impact")
            => hitLog' = IF NearestHittable(ChainOf(last'.found[1].object)) = NoNode
                         THEN hitLog
                         ELSE Append(hitLog,
                                     <<NearestHittable(ChainOf(last'.found[1].object)),
                                       Visiting>>)
       /\ \A node \in SceneNodes :
            /\ HostOf(node) = IF NearestHittable(ChainOf(node)) = NoNode
                              THEN ChainOf(node)[Len(ChainOf(node))]
                              ELSE NearestHittable(ChainOf(node))
            /\ Hittable(HostOf(node)) = (NearestHittable(ChainOf(node)) # NoNode)]_vars

\* a projectile has struck the deck without deflecting and the callback went
\* to the Aircraft, two levels above the mesh
C24_Witness ==
    /\ last.resolved = "impact"
    /\ last.found # <<>>
    /\ last.found[1].object = "deck"
    /\ ParentOf(ParentOf("deck")) = "aircraft"
    /\ last.host = "aircraft"
    /\ hitLog # <<>>
    /\ hitLog[Len(hitLog)] = <<"aircraft", last.who>>

\* C25: the gravity and drag flags a projectile was created with control its
\* physics: with both flags false, a tick without a ray hit leaves its
\* velocity as it was.
C25_FlagsControlPhysics ==
    [][(TickUpdate /\ last'.active /\ last'.resolved = "none"
          /\ ~proj[Visiting].options.gravity /\ ~proj[Visiting].options.drag)
         => proj'[Visiting].v = proj[Visiting].v]_vars

(***************************************************************************)
(* The formula of Clamp, checked under SpecClamp.                          *)
(***************************************************************************)
\* targetMax of lines 27-33
TargetMax(g, options) ==
    Only({IF FLess(targetMax, TargetMin(g, options)) THEN options.maxHeight ELSE targetMax
            : targetMax \in {IF Truthy(options.stretch) THEN options.maxHeight
                             ELSE IF FLess(MaxOf(g, -Infinity), options.maxHeight)
                                  THEN MaxOf(g, -Infinity)
                                  ELSE options.maxHeight}})

Inside(g, options) ==
    \A i \in 1..Len(g) : options.minHeight <= g[i] /\ g[i] <= options.maxHeight

\* C26: Clamp leaves in every cell ease((v - min) / (max - min)) * targetRange
\* + targetMin, targetMin being the larger of the buffer's minimum and
\* minHeight when stretch is false; so with stretch false, Linear easing and
\* a buffer already inside [minHeight, maxHeight], no cell changes.
C26_ClampFormula ==
    heightfield.call = "Clamp"
      => /\ \A i \in 1..Len(heightfield.g) :
              heightfield.g[i] =
                FAdd(FScale(Ease(heightfield.options.easing,
                                 FRatio(FSub(heightfield.given.g[i],
                                             MinOf(heightfield.given.g, Infinity)),
                                        FSub(MaxOf(heightfield.given.g, -Infinity),
                                             MinOf(heightfield.given.g, Infinity)))),
                            FSub(TargetMax(heightfield.given.g, heightfield.given.options),
                                 TargetMin(heightfield.given.g, heightfield.given.options))),
                     TargetMin(heightfield.given.g, heightfield.given.options))
         /\ (/\ ~Truthy(heightfield.given.options.stretch)
             /\ heightfield.options.easing = "Linear"
             /\ Inside(heightfield.given.g, heightfield.given.options))
              => heightfield.g = heightfield.given.g

(***************************************************************************)
(* percentile(arr, p) of Analyze.  p is per mille, and the value returned  *)
(* is in thousandths of the array's unit, so that the interpolation is     *)
(* exact.  Analyze sorts the elevations before it asks for a percentile.   *)
(***************************************************************************)
MaxSamples == 3
Samples == {0, 10, 20, 50}
Sorted(arr) == \A i, j \in 1..Len(arr) : i <= j => arr[i] <= arr[j]
SortedArrays == UNION {{arr \in [1..n -> Samples] : Sorted(arr)} : n \in 0..MaxSamples}
Ranks == {0, 250, 500, 750, 1000}

percentile(arr, p) ==
    IF Len(arr) = 0 THEN 0
    ELSE IF p <= 0 THEN 1000 * arr[1]
    ELSE IF p >= 1000 THEN 1000 * arr[Len(arr)]
    ELSE Only({IF lower + 1 >= Len(arr) THEN 1000 * arr[lower + 1]
               ELSE arr[lower + 1] * (1000 - weight) + arr[lower + 2] * weight
                 : lower \in {(Len(arr) * p) \div 1000},
                   weight \in {(Len(arr) * p) % 1000}})

InitPercentile ==
    /\ NewGame
    /\ \E arr \in SortedArrays, p \in Ranks :
         heightfield = [call |-> "ready", arr |-> arr, p |-> p, result |-> 0]

PercentileCall ==
    /\ heightfield.call = "ready"
    /\ heightfield' = [heightfield EXCEPT
                         !.call = "percentile",
                         !.result = percentile(heightfield.arr, heightfield.p)]
    /\ UNCHANGED <<proj, objects, decals, decalInfo, hitLog, raycaster,
                   fireCooldown, isFiring, shipLoaded, tick, last>>

SpecPercentile == InitPercentile /\ [][PercentileCall]_vars

\* C27: for a sorted array of odd length n, percentile(arr, 0.5) is the
\* middle element arr[(n - 1) / 2], and for every sorted array that is not
\* empty the percentile lies between arr[0] and arr[n - 1].
C27_MedianIsMiddle ==
    (heightfield.call = "percentile" /\ Len(heightfield.arr) > 0)
      => /\ 1000 * heightfield.arr[1] <= heightfield.result
         /\ heightfield.result <= 1000 * heightfield.arr[Len(heightfield.arr)]
         /\ (Len(heightfield.arr) % 2 = 1 /\ heightfield.p = 500)
              => heightfield.result
                   = 1000 * heightfield.arr[(Len(heightfield.arr) - 1) \div 2 + 1]

(***************************************************************************)
(* Influence(g, options, f, x, y, r, h, t, e): a feature placed on the     *)
(* terrain.  The grid has segments of width 1 (xSize = xSegments, ySize =  *)
(* ySegments), and x and y are multiples of 1 / xl and 1 / yl, so that the *)
(* feature origin (vx, vy) = (xl * x, yl * y) and the radius in vertices   *)
(* are whole numbers; f is Influences.Hill and e is EaseIn, the defaults.  *)
(* Distances relative to the radius and the two curves are per mille.      *)
(***************************************************************************)
MaxInfluenceSegments == 2
DefaultHeight == 64
Radii == {1, 2}
Blendings == {"AdditiveBlending", "SubtractiveBlending", "MultiplyBlending",
              "NoBlending", "NormalBlending"}

\* Influences.Hill
Hill(x) ==
    IF x < 0
    THEN Quot(Quot((x + 1000) * (x + 1000), 1000) * (3000 - 2 * (x + 1000)), 1000)
    ELSE 1000 - Quot(Quot(x * x, 1000) * (3000 - 2 * x), 1000)

\* the body of the two loops for the vertex (i, j): the buffer after it
Blend(g, xl, i, j, at, r, h, t) ==
    Only({
        IF fd2 > r * r \/ k < 0 \/ k >= Len(g) THEN g
        ELSE [g EXCEPT ![k + 1] =
                CASE t = "AdditiveBlending" -> @ + d
                  [] t = "SubtractiveBlending" -> @ - d
                  [] t = "MultiplyBlending" -> @ * d
                  [] t = "NoBlending" -> d
                  [] t = "NormalBlending" -> Quot(EaseIn(fdr) * @, 1000) + d]
        : k \in {j * xl + i},
          fd2 \in {(i - at[1]) * (i - at[1]) + (j - at[2]) * (j - at[2])},
          fdr \in {Quot(ISqrt(((i - at[1]) * (i - at[1]) + (j - at[2]) * (j - at[2]))
                               * 1000000), r)},
          d \in {Quot(Quot(Hill(Quot(ISqrt(((i - at[1]) * (i - at[1])
                                             + (j - at[2]) * (j - at[2])) * 1000000), r))
                             * h, 1000)
                        * (1000 - EaseIn(Quot(ISqrt(((i - at[1]) * (i - at[1])
                                                      + (j - at[2]) * (j - at[2]))
                                                     * 1000000), r))),
                      1000)}})

\* for (let j = ys; j < ye; j++)
RECURSIVE InfluenceRow(_, _, _, _, _, _, _, _, _)
InfluenceRow(g, xl, i, j, ye, at, r, h, t) ==
    IF j < ye
    THEN InfluenceRow(Blend(g, xl, i, j, at, r, h, t), xl, i, j + 1, ye, at, r, h, t)
    ELSE g

\* for (let i = xs; i < xe; i++)
RECURSIVE InfluenceColumns(_, _, _, _, _, _, _, _)
InfluenceColumns(g, xl, i, xe, at, r, h, t) ==
    IF i < xe
    THEN InfluenceColumns(InfluenceRow(g, xl, i, at[2] - r, at[2] + r, at, r, h, t),
                          xl, i + 1, xe, at, r, h, t)
    ELSE g

Influence(g, options, at, r, h, t) ==
    InfluenceColumns(g, options.xSegments + 1, at[1] - r, at[1] + r, at, r, h, t)

Ramp(n) == [k \in 1..n |-> 10 * k]

InitInfluence ==
    /\ NewGame
    /\ \E xs \in 1..MaxInfluenceSegments, ys \in 1..MaxInfluenceSegments,
          r \in Radii, t \in Blendings :
         \E vx \in 0..(xs + 1), vy \in 0..(ys + 1) :
           heightfield = [call |-> "ready",
                          given |-> [g |-> Ramp((xs + 1) * (ys + 1)),
                                     options |-> [xSegments |-> xs, ySegments |-> ys],
                                     at |-> <<vx, vy>>, r |-> r, h |-> DefaultHeight,
                                     t |-> t],
                          g |-> Ramp((xs + 1) * (ys + 1))]

InfluenceCall ==
    /\ heightfield.call = "ready"
    /\ heightfield' = [heightfield EXCEPT
                         !.call = "Influence",
                         !.g = Influence(heightfield.g, heightfield.given.options,
                                         heightfield.given.at, heightfield.given.r,
                                         heightfield.given.h, heightfield.given.t)]
    /\ UNCHANGED <<proj, objects, decals, decalInfo, hitLog, raycaster,
                   fireCooldown, isFiring, shipLoaded, tick, last>>

SpecInfluence == InitInfluence /\ [][InfluenceCall]_vars

\* C28: Influence changes only cells whose distance from the feature origin
\* is at most the radius; no cell farther away, on the opposite edge or in a
\* neighbouring row, is changed.
C28_InfluenceStaysInRadius ==
    heightfield.call = "Influence"
      => \A k \in 0..(Len(heightfield.g) - 1) :
           heightfield.g[k + 1] # heightfield.given.g[k + 1]
             => LET i == k % (heightfield.given.options.xSegments + 1)
                    j == k \div (heightfield.given.options.xSegments + 1)
                IN  (i - heightfield.given.at[1]) * (i - heightfield.given.at[1])
                      + (j - heightfield.given.at[2]) * (j - heightfield.given.at[2])
                    <= heightfield.given.r * heightfield.given.r

(***************************************************************************)
(* SmoothMedian(g, options).  neighborKeys holds grid keys, neighborValues *)
(* the values in the order the keys were pushed, and the comparator        *)
(* sortByValue(a, b) reads neighborValues[a] - neighborValues[b] with the  *)
(* KEYS a and b as indices: a key past the end of neighborValues reads     *)
(* undefined and the difference is NaN, which sort takes as "equal".  When *)
(* the comparator is not a consistent one the order sort leaves is         *)
(* implementation-defined: any permutation of the keys.                    *)
(***************************************************************************)
MaxMedianSegments == 2
MedianElevations == {0, 10}

\* the keys of a set in ascending order: the order lines 230-237 push them in
RECURSIVE AscendingKeys(_)
AscendingKeys(keys) ==
    IF keys = {} THEN <<>>
    ELSE Only({<<least>> \o AscendingKeys(keys \ {least})
                 : least \in {CHOOSE k \in keys : \A other \in keys : k <= other}})

neighborKeys(g, options, i, j) ==
    AscendingKeys({KeyOf(options, i + nm[2], j + nm[1])
                     : nm \in Neighbourhood(g, options, i, j)})

\* neighborValues[a], for a key a used as an index
ValueRead(g, keys, a) == IF a < Len(keys) THEN g[keys[a + 1] + 1] ELSE Undefined

\* sortByValue(a, b) < 0, = 0 (NaN counted), > 0
sortByValue(g, keys, a, b) ==
    IF IsUndefined(ValueRead(g, keys, a)) \/ IsUndefined(ValueRead(g, keys, b)) THEN 0
    ELSE Sgn(ValueRead(g, keys, a) - ValueRead(g, keys, b))

\* the comparator orders the keys consistently (a strict weak ordering)
Consistent(g, keys) ==
    \A a, b, c \in {keys[k] : k \in 1..Len(keys)} :
        /\ (sortByValue(g, keys, a, b) = 0 /\ sortByValue(g, keys, b, c) = 0)
             => sortByValue(g, keys, a, c) = 0
        /\ (sortByValue(g, keys, a, b) < 0 /\ sortByValue(g, keys, b, c) = 0)
             => sortByValue(g, keys, a, c) < 0
        /\ (sortByValue(g, keys, a, b) = 0 /\ sortByValue(g, keys, b, c) < 0)
             => sortByValue(g, keys, a, c) < 0

\* a stable sort under a consistent comparator
RECURSIVE InsertKey(_, _, _, _)
InsertKey(g, keys, sorted, key) ==
    IF sorted = <<>> THEN <<key>>
    ELSE IF sortByValue(g, keys, key, Head(sorted)) < 0 THEN <<key>> \o sorted
    ELSE <<Head(sorted)>> \o InsertKey(g, keys, Tail(sorted), key)
RECURSIVE SortKeys(_, _, _)
SortKeys(g, keys, rest) ==
    IF rest = <<>> THEN <<>>
    ELSE InsertKey(g, keys, SortKeys(g, keys, SubSeq(rest, 1, Len(rest) - 1)),
                   rest[Len(rest)])

\* lines 239-245 on the keys as sort left them
MedianAt(g, sorted) ==
    IF Len(sorted) % 2 = 1 THEN g[sorted[Len(sorted) \div 2 + 1] + 1]
    ELSE Quot(g[sorted[Len(sorted) \div 2] + 1] + g[sorted[Len(sorted) \div 2 + 1] + 1], 2)

\* the values line 246 can store for the cell (i, j)
Medians(g, options, i, j) ==
    Only({
        IF Consistent(g, keys) THEN {MedianAt(g, SortKeys(g, keys, keys))}
        ELSE IF Len(keys) % 2 = 1 THEN {g[keys[k] + 1] : k \in 1..Len(keys)}
        ELSE {Quot(g[keys[kl[1]] + 1] + g[keys[kl[2]] + 1], 2)
                : kl \in {pair \in (1..Len(keys)) \X (1..Len(keys)) : pair[1] # pair[2]}}
        : keys \in {neighborKeys(g, options, i, j)}})

\* the buffers a call of SmoothMedian can leave
SmoothMedian(g, options) ==
    Only({{heightmap \in [1..Len(g) -> UNION {can[k] : k \in 1..Len(g)}] :
             \A k \in 1..Len(g) : heightmap[k] \in can[k]}
            : can \in {[k \in 1..Len(g) |->
                          Medians(g, options, (k - 1) % (options.xSegments + 1),
                                  (k - 1) \div (options.xSegments + 1))]}})

InitSmoothMedian ==
    /\ NewGame
    /\ \E xs \in 0..MaxMedianSegments, ys \in 0..1 :
         \E g \in [1..((xs + 1) * (ys + 1)) -> MedianElevations] :
           heightfield = [call |-> "ready",
                          given |-> [g |-> g,
                                     options |-> [xSegments |-> xs, ySegments |-> ys]],
                          g |-> g]

SmoothMedianCall ==
    /\ heightfield.call = "ready"
    /\ \E heightmap \in SmoothMedian(heightfield.g, heightfield.given.options) :
         heightfield' = [heightfield EXCEPT !.call = "SmoothMedian", !.g = heightmap]
    /\ UNCHANGED <<proj, objects, decals, decalInfo, hitLog, raycaster,
                   fireCooldown, isFiring, shipLoaded, tick, last>>

SpecSmoothMedian == InitSmoothMedian /\ [][SmoothMedianCall]_vars

\* the median of a sequence of values
MedianOfValues(values) ==
    Only({IF Len(sorted) % 2 = 1 THEN sorted[Len(sorted) \div 2 + 1]
          ELSE Quot(sorted[Len(sorted) \div 2] + sorted[Len(sorted) \div 2 + 1], 2)
            : sorted \in {SortHeights(values)}})

\* C29: SmoothMedian leaves in every cell the median of the values its
\* in-bounds 3x3 neighbourhood had before the call: the middle value of an
\* odd count, the average of the two middle values of an even count.
C29_CellsBecomeMedians ==
    heightfield.call = "SmoothMedian"
      => \A k \in 1..Len(heightfield.g) :
           heightfield.g[k] =
             Only({MedianOfValues([n \in 1..Len(keys) |-> heightfield.given.g[keys[n] + 1]])
                     : keys \in {neighborKeys(heightfield.given.g, heightfield.given.options,
                                              (k - 1) % (heightfield.given.options.xSegments + 1),
                                              (k - 1) \div (heightfield.given.options.xSegments + 1))}})

(***************************************************************************)
(* GaussianBoxBlur(g, options, s, n).  A 1-D box blur runs along a line of *)
(* the grid: boxBlurH along each row (stride 1), boxBlurV along each       *)
(* column (stride w); both are the same three loops.  A read past the end  *)
(* of a typed array is undefined (NaN in arithmetic), a write past the end *)
(* is dropped.  val * iarr is val / (2 r + 1).                             *)
(***************************************************************************)
MaxBlurSegments == 2
MaxBoxes == 3
BlurElevations == {0, 9, 36}

boxesForGauss(sigma, n) ==
    Only({Only({[i \in 1..n |-> IF i - 1 < m THEN wl ELSE wl + 2]
                  : m \in {(2 * (n * wl * wl + 4 * n * wl + 3 * n - 12 * sigma * sigma)
                               + (4 * wl + 4)) \div (2 * (4 * wl + 4))}})
            : wl \in {IF ISqrt((12 * sigma * sigma) \div n + 1) % 2 = 0
                      THEN ISqrt((12 * sigma * sigma) \div n + 1) - 1
                      ELSE ISqrt((12 * sigma * sigma) \div n + 1)}})

\* tcl[ti] = val * iarr
Stored(tcl, ti, val, r) ==
    IF ti < Len(tcl)
    THEN [tcl EXCEPT ![ti + 1] = IF IsNaN(val) THEN NaN ELSE Quot(val, r + r + 1)]
    ELSE tcl

\* the three loops over j of a line; b holds val, ti, li, ri and tcl
RECURSIVE BlurLoop(_, _, _, _, _, _, _, _, _)
BlurLoop(b, scl, loop, j, end, stride, fv, lv, r) ==
    IF j >= end THEN b
    ELSE Only({BlurLoop([val |-> val,
                         tcl |-> Stored(b.tcl, b.ti, val, r),
                         ti |-> b.ti + stride,
                         li |-> IF loop = 1 THEN b.li ELSE b.li + stride,
                         ri |-> IF loop = 3 THEN b.ri ELSE b.ri + stride],
                        scl, loop, j + 1, end, stride, fv, lv, r)
                 : val \in {CASE loop = 1 -> FAdd(b.val, FSub(Num(At(scl, b.ri)), fv))
                              [] loop = 2 -> FAdd(b.val, FSub(Num(At(scl, b.ri)),
                                                              Num(At(scl, b.li))))
                              [] loop = 3 -> FAdd(b.val, FSub(lv, Num(At(scl, b.li))))}})

\* val = (r + 1) * fv; for (j = 0; j < r; j++) val += scl[ti + j * stride]
RECURSIVE BoxSum(_, _, _, _, _)
BoxSum(scl, ti, stride, j, r) ==
    IF j >= r THEN 0 ELSE FAdd(Num(At(scl, ti + j * stride)), BoxSum(scl, ti, stride, j + 1, r))

\* one row of boxBlurH, one column of boxBlurV: the target after it
BlurLine(scl, tcl, start, stride, len, r) ==
    Only({BlurLoop(
            BlurLoop(
              BlurLoop([val |-> FAdd(IF IsNaN(fv) THEN NaN ELSE (r + 1) * fv,
                                     BoxSum(scl, start, stride, 0, r)),
                        tcl |-> tcl, ti |-> start, li |-> start,
                        ri |-> start + r * stride],
                       scl, 1, 0, r + 1, stride, fv, lv, r),
              scl, 2, r + 1, len - r, stride, fv, lv, r),
            scl, 3, len - r, len, stride, fv, lv, r).tcl
            : fv \in {Num(At(scl, start))},
              lv \in {Num(At(scl, start + stride * (len - 1)))}})

RECURSIVE boxBlurH_Rows(_, _, _, _, _, _)
boxBlurH_Rows(scl, tcl, w, h, r, i) ==
    IF i >= h THEN tcl
    ELSE boxBlurH_Rows(scl, BlurLine(scl, tcl, i * w, 1, w, r), w, h, r, i + 1)
boxBlurH(scl, tcl, w, h, r) == boxBlurH_Rows(scl, tcl, w, h, r, 0)

RECURSIVE boxBlurV_Columns(_, _, _, _, _, _)
boxBlurV_Columns(scl, tcl, w, h, r, i) ==
    IF i >= w THEN tcl
    ELSE boxBlurV_Columns(scl, BlurLine(scl, tcl, i, w, h, r), w, h, r, i + 1)
boxBlurV(scl, tcl, w, h, r) == boxBlurV_Columns(scl, tcl, w, h, r, 0)

\* boxBlur(scl, tcl, w, h, r): both arrays after it
boxBlur(scl, tcl, w, h, r) ==
    Only({[scl |-> across, tcl |-> boxBlurV(across, scl, w, h, r)]
            : across \in {boxBlurH(scl, scl, w, h, r)}})

RECURSIVE gaussianBoxBlur_Loop(_, _, _, _, _, _)
gaussianBoxBlur_Loop(scl, tcl, w, h, boxes, i) ==
    IF i > Len(boxes) THEN [scl |-> scl, tcl |-> tcl]
    ELSE Only({gaussianBoxBlur_Loop(b.scl, b.tcl, w, h, boxes, i + 1)
                 : b \in {boxBlur(scl, tcl, w, h, (boxes[i] - 1) \div 2)}})
gaussianBoxBlur(scl, w, h, r, n) ==
    gaussianBoxBlur_Loop(scl, Zeros(Len(scl)), w, h, boxesForGauss(r, n), 1)

\* the caller's g after GaussianBoxBlur(g, options, s, n)
GaussianBoxBlur(g, options, s, n) ==
    gaussianBoxBlur(g, options.xSegments + 1, options.ySegments + 1, s, n).scl

InitBlur ==
    /\ NewGame
    /\ \E xs \in 0..MaxBlurSegments, ys \in 0..MaxBlurSegments, n \in 1..MaxBoxes :
         \E g \in [1..((xs + 1) * (ys + 1)) -> BlurElevations] :
           heightfield = [call |-> "ready",
                          given |-> [g |-> g,
                                     options |-> [xSegments |-> xs, ySegments |-> ys],
                                     s |-> 1, n |-> n],
                          g |-> g]

GaussianBoxBlurCall ==
    /\ heightfield.call = "ready"
    /\ heightfield' = [heightfield EXCEPT
                         !.call = "GaussianBoxBlur",
                         !.g = GaussianBoxBlur(heightfield.g, heightfield.given.options,
                                               heightfield.given.s, heightfield.given.n)]
    /\ UNCHANGED <<proj, objects, decals, decalInfo, hitLog, raycaster,
                   fireCooldown, isFiring, shipLoaded, tick, last>>

SpecBlur == InitBlur /\ [][GaussianBoxBlurCall]_vars

\* n successive 2-D box blurs, each a horizontal pass and then a vertical
\* pass over the result of the horizontal one
RECURSIVE SuccessiveBlurs(_, _, _, _, _)
SuccessiveBlurs(g, w, h, boxes, i) ==
    IF i > Len(boxes) THEN g
    ELSE Only({SuccessiveBlurs(boxBlurV(across, across, w, h, (boxes[i] - 1) \div 2),
                               w, h, boxes, i + 1)
                 : across \in {boxBlurH(g, g, w, h, (boxes[i] - 1) \div 2)}})

\* every row is flat and two rows differ
VariesByRowOnly(g, w, h) ==
    /\ \A k \in 0..(Len(g) - 1) : g[k + 1] = g[(k \div w) * w + 1]
    /\ \E k \in 0..(Len(g) - 1) : g[k + 1] # g[1]

\* C30: when GaussianBoxBlur(g, options, s, n) has returned, g is the result
\* of n successive 2-D box blurs of the g that was given, each a horizontal
\* and then a vertical pass with the widths of boxesForGauss(s, n); a buffer
\* that varies only from row to row has been changed.
C30_BlurIsTwoDimensional ==
    heightfield.call = "GaussianBoxBlur"
      => /\ heightfield.g =
              SuccessiveBlurs(heightfield.given.g,
                              heightfield.given.options.xSegments + 1,
                              heightfield.given.options.ySegments + 1,
                              boxesForGauss(heightfield.given.s, heightfield.given.n), 1)
         /\ VariesByRowOnly(heightfield.given.g,
                            heightfield.given.options.xSegments + 1,
                            heightfield.given.options.ySegments + 1)
              => heightfield.g # heightfield.given.g

====
